---- MODULE Spec2Model ----
(***************************************************************************)
(* Model of opencode-personality: the layered personality store            *)
(* (src/src/config.ts), the /personality and /mood command handlers and    *)
(* the savePersonality tool.                                               *)
(*                                                                         *)
(* Conventions                                                             *)
(*  - A JavaScript object used as an ordered map (personalities, states)   *)
(*    is a sequence of [key, val] entries in Object.keys order: keys that  *)
(*    are canonical array indices ("1", "2") first in ascending numeric    *)
(*    order, then the other keys in insertion order.                       *)
(*  - A JavaScript object with a fixed set of optional fields (a parsed    *)
(*    file, a definition, a mood config, a mood state) is a TLA+ record    *)
(*    whose DOMAIN is the set of fields that are present.                  *)
(*  - null and undefined are the strings NULL and UNDEF.                   *)
(*  - Numbers (scores, drift, slangIntensity) are integers in tenths; a    *)
(*    score is a tagged record so that NaN, null and a missing score can   *)
(*    be told apart.                                                       *)
(***************************************************************************)
EXTENDS Integers, Sequences, FiniteSets, TLC

VARIABLES disk, dirs, now, sess, last

vars == <<disk, dirs, now, sess, last>>

(***************************************************************************)
(* Bounds                                                                  *)
(***************************************************************************)
MaxKeys == 2            \* most personalities in a file drawn at Init
MaxNow == 2             \* largest clock value

(***************************************************************************)
(* JavaScript values                                                       *)
(***************************************************************************)
NULL == "<null>"
UNDEF == "<undefined>"

Paths == {"global", "project"}

\* the personality keys the model draws from; "1" is a canonical array index
Keys == {"a", "b", "1"}

IsArrayIndex(k) == k \in {"1", "2"}

IndexValue(k) == IF k = "1" THEN 1 ELSE 2

Has(r, f) == f \in DOMAIN r

\* r.f, undefined when the field is absent (string-valued fields only)
Get(r, f) == IF f \in DOMAIN r THEN r[f] ELSE UNDEF

\* { ...r, f: v }
Put(r, f, v) == (f :> v) @@ r

\* r without field f (a rest pattern, or a field dropped by JSON.stringify)
Drop(r, f) == [x \in DOMAIN r \ {f} |-> r[x]]

EmptyObj == <<>>

ObjKeys(o) == [i \in 1..Len(o) |-> o[i].key]

ObjKeySet(o) == {o[i].key : i \in 1..Len(o)}

ObjHas(o, k) == \E i \in 1..Len(o) : o[i].key = k

\* k in o: true of o's own keys and of the names every object inherits
In(k, o) == ObjHas(o, k) \/ k \in {"toString", "constructor"}

ObjGet(o, k) == o[CHOOSE i \in 1..Len(o) : o[i].key = k].val

\* position at which a new key k is enumerated in o
ObjInsertPos(o, k) ==
  IF IsArrayIndex(k)
  THEN 1 + Cardinality({i \in 1..Len(o) :
                          IsArrayIndex(o[i].key) /\ IndexValue(o[i].key) < IndexValue(k)})
  ELSE Len(o) + 1

\* o[k] = v on a plain object: an existing key keeps its position
ObjSet(o, k, v) ==
  IF ObjHas(o, k)
  THEN [i \in 1..Len(o) |-> IF o[i].key = k THEN [key |-> k, val |-> v] ELSE o[i]]
  ELSE LET p == ObjInsertPos(o, k)
       IN  SubSeq(o, 1, p - 1) \o <<[key |-> k, val |-> v]>> \o SubSeq(o, p, Len(o))

RECURSIVE ObjSpread(_, _)
\* { ...a, ...b }
ObjSpread(a, b) ==
  IF b = <<>> THEN a ELSE ObjSpread(ObjSet(a, b[1].key, b[1].val), Tail(b))

\* the entries of o whose key is not k, in o's order (a filtering copy loop)
ObjWithout(o, k) == SelectSeq(o, LAMBDA e : e.key # k)

(***************************************************************************)
(* Nullable results and thrown errors                                      *)
(***************************************************************************)
Nothing == [kind |-> "null"]

Some(x) == [kind |-> "some", v |-> x]

Throw(e) == [kind |-> "throw", error |-> e]

(***************************************************************************)
(* Numbers: tenths, tagged so that NaN and null are values of their own    *)
(***************************************************************************)
Num(n) == [t |-> "number", n |-> n]

NaN == [t |-> "NaN"]

NullNum == [t |-> "null"]

\* Number.isNaN(v): true of the number NaN only (false of null and undefined)
NumberIsNaN(v) == v.t = "NaN"

(***************************************************************************)
(* config.ts: constants                                                    *)
(***************************************************************************)
DEFAULT_MOOD_CONFIG ==
  [enabled |-> FALSE, default |-> "happy", override |-> NULL, drift |-> 2, toast |-> TRUE]

DEFAULT_MOODS ==
  << [name |-> "bored", hint |-> "h-bored", score |-> Num(-20)],
     [name |-> "angry", hint |-> "h-angry", score |-> Num(-10)],
     [name |-> "disappointed", hint |-> "h-disappointed", score |-> Num(0)],
     [name |-> "happy", hint |-> "h-happy", score |-> Num(10)],
     [name |-> "ecstatic", hint |-> "h-ecstatic", score |-> Num(20)] >>

(***************************************************************************)
(* config.ts: deepMerge, mergeWithDefaults                                 *)
(***************************************************************************)
\* the fields whose values are plain objects (neither arrays nor scalars)
ObjectFields == {"mood"}

RECURSIVE deepMerge(_, _)
\* a mutant: every field of the source replaces the target's field whole
deepMergeShallow(target, source) ==
  [k \in DOMAIN target \cup DOMAIN source |->
     IF k \in DOMAIN source THEN source[k] ELSE target[k]]

deepMerge(target, source) ==
  [k \in DOMAIN target \cup DOMAIN source |->
     IF k \notin DOMAIN source THEN target[k]
     ELSE IF k \in ObjectFields /\ k \in DOMAIN target
          THEN deepMerge(target[k], source[k])
          ELSE source[k]]

\* a mutant: the skeleton carries no catalog
mergeWithDefaultsNoCatalog(partial) ==
  LET skeleton == [name |-> "", description |-> "", emoji |-> FALSE,
                   slangIntensity |-> 0, mood |-> DEFAULT_MOOD_CONFIG]
      merged == deepMerge(skeleton, partial)
  IN  IF Has(partial, "mood")
      THEN Put(merged, "mood", deepMerge(merged.mood, partial.mood))
      ELSE merged

mergeWithDefaults(partial) ==
  LET skeleton == [name |-> "", description |-> "", emoji |-> FALSE,
                   slangIntensity |-> 0, moods |-> DEFAULT_MOODS,
                   mood |-> DEFAULT_MOOD_CONFIG]
      merged == deepMerge(skeleton, partial)
  IN  IF Has(partial, "mood")
      THEN Put(merged, "mood", deepMerge(merged.mood, partial.mood))
      ELSE merged

(***************************************************************************)
(* config.ts: legacy migration                                             *)
(***************************************************************************)
\* String.prototype.trim on the names the model uses
Trim(s) == CASE s = " b " -> "b"
             [] s = "  " -> ""
             [] OTHER -> s

isLegacyFormat(data) == Has(data, "description") /\ ~Has(data, "personalities")

\* a mutant: the name is not trimmed and the state stays inside the profile
migrateLegacyToMultiVerbatim(legacy) ==
  LET key == IF Get(legacy, "name") \in {UNDEF, ""} THEN "default" ELSE legacy.name
      result == [active |-> key,
                 personalities |-> <<[key |-> key, val |-> legacy]>>]
  IN  IF Has(legacy, "state")
      THEN Put(result, "states", <<[key |-> key, val |-> legacy.state]>>)
      ELSE result

migrateLegacyToMulti(legacy) ==
  LET definition == Drop(legacy, "state")
      trimmed == IF Has(definition, "name") THEN Trim(definition.name) ELSE UNDEF
      key == IF trimmed \in {UNDEF, ""} THEN "default" ELSE trimmed
      result == [active |-> key,
                 personalities |-> <<[key |-> key, val |-> definition]>>]
  IN  IF Has(legacy, "state")
      THEN Put(result, "states", <<[key |-> key, val |-> legacy.state]>>)
      ELSE result

(***************************************************************************)
(* config.ts: file loading                                                 *)
(***************************************************************************)
\* a file on disk: absent, not JSON, or the JSON object it holds
Absent == [kind |-> "absent"]

Invalid == [kind |-> "invalid"]

Json(data) == [kind |-> "json", data |-> data]

\* a mutant: a file that is not JSON is treated like a missing file
tryLoadJsonSwallows(d, path) ==
  CASE d[path].kind = "absent" -> Nothing
    [] d[path].kind = "invalid" -> Nothing
    [] OTHER -> Some(d[path].data)

tryLoadJson(d, path) ==
  CASE d[path].kind = "absent" -> Nothing
    [] d[path].kind = "invalid" -> Throw("SyntaxError")
    [] OTHER -> Some(d[path].data)

loadPersonalityFile(d, path) ==
  LET raw == tryLoadJson(d, path)
  IN  IF raw.kind # "some" THEN raw
      ELSE IF isLegacyFormat(raw.v) THEN Some(migrateLegacyToMulti(raw.v))
      ELSE raw

\* the store a path holds, decoded as every reader of the file decodes it
StoreAt(d, p) == loadPersonalityFile(d, p).v

getActivePersonality(file) ==
  IF ObjHas(file.personalities, Get(file, "active"))
  THEN Some(ObjGet(file.personalities, file.active))
  ELSE Nothing

listPersonalities(file) == ObjKeys(file.personalities)

\* file.states ?? {}
StatesOrEmpty(file) == IF Has(file, "states") THEN file.states ELSE EmptyObj

\* spreading file.personalities: nothing is copied when the field is missing
PersOrEmpty(file) == IF Has(file, "personalities") THEN file.personalities ELSE EmptyObj

\* a mutant: the project entry is merged field by field over the global one
MergedPersonalitiesDeep(globalFile, projectFile) ==
  LET g == PersOrEmpty(globalFile)
      p == PersOrEmpty(projectFile)
      deep == [i \in 1..Len(p) |->
                 IF ObjHas(g, p[i].key)
                 THEN [key |-> p[i].key, val |-> deepMerge(ObjGet(g, p[i].key), p[i].val)]
                 ELSE p[i]]
  IN  ObjSpread(ObjSpread(EmptyObj, g), deep)

\* { ...globalFile.personalities, ...projectFile.personalities }
MergedPersonalities(globalFile, projectFile) ==
  ObjSpread(ObjSpread(EmptyObj, PersOrEmpty(globalFile)), PersOrEmpty(projectFile))

\* a mutant: the global state wins on a key both layers hold
MergedStatesGlobalWins(globalFile, projectFile) ==
  ObjSpread(ObjSpread(EmptyObj, StatesOrEmpty(projectFile)), StatesOrEmpty(globalFile))

\* { ...(globalFile.states ?? {}), ...(projectFile.states ?? {}) }
MergedStates(globalFile, projectFile) ==
  ObjSpread(ObjSpread(EmptyObj, StatesOrEmpty(globalFile)), StatesOrEmpty(projectFile))

\* a mutant: the global active is kept when the global store names one
MergedActiveGlobalFirst(globalFile, projectFile) ==
  IF Has(globalFile, "active") THEN globalFile.active ELSE Get(projectFile, "active")

\* active: projectFile.active
MergedActive(globalFile, projectFile) == Get(projectFile, "active")

\* the store loadConfigWithPrecedence builds when both layers exist
MergeFiles(globalFile, projectFile) ==
  LET base == [personalities |-> MergedPersonalities(globalFile, projectFile)]
      act == MergedActive(globalFile, projectFile)
      withActive == IF act # UNDEF THEN Put(base, "active", act) ELSE base
      mergedStates == MergedStates(globalFile, projectFile)
  IN  IF Len(mergedStates) > 0 THEN Put(withActive, "states", mergedStates)
      ELSE withActive

\* a mutant: no fallback when the active key names no personality
EnsureActiveNoFallback(merged) == merged

\* "Ensure active personality exists, fall back to first available"
EnsureActive(merged) ==
  IF ~ObjHas(merged.personalities, Get(merged, "active"))
     /\ Len(merged.personalities) > 0
  THEN Put(merged, "active", ObjKeys(merged.personalities)[1])
  ELSE merged

SourceOf(hasG, hasP) ==
  IF hasG /\ hasP THEN "both" ELSE IF hasP THEN "project" ELSE "global"

\* a mutant: with both layers, mood state goes to the layer defining the active key
StatePathOfActiveOrigin(hasP, merged, projectFile) ==
  IF hasP /\ projectFile.kind = "some"
     /\ ObjHas(PersOrEmpty(projectFile.v), Get(merged, "active"))
  THEN "project" ELSE "global"

\* statePath = projectFile ? projectPath : globalPath
StatePathOf(hasP, merged, projectFile) == IF hasP THEN "project" ELSE "global"

loadConfigWithPrecedence(d) ==
  LET globalFile == loadPersonalityFile(d, "global")
      projectFile == loadPersonalityFile(d, "project")
      hasG == globalFile.kind = "some"
      hasP == projectFile.kind = "some"
      picked == IF hasG /\ hasP THEN MergeFiles(globalFile.v, projectFile.v)
                ELSE IF hasP THEN projectFile.v ELSE globalFile.v
      merged == EnsureActive(picked)
      activeDefinition == getActivePersonality(merged)
  IN  IF globalFile.kind = "throw" THEN globalFile
      ELSE IF projectFile.kind = "throw" THEN projectFile
      ELSE IF ~hasG /\ ~hasP
      THEN [kind |-> "ok", config |-> Nothing, file |-> Nothing, source |-> "none",
            statePath |-> "", globalPath |-> "global", projectPath |-> "project"]
      ELSE IF ~Has(picked, "personalities") THEN Throw("TypeError")
      ELSE [kind |-> "ok",
            config |-> IF activeDefinition.kind = "some"
                       THEN Some(mergeWithDefaults(activeDefinition.v)) ELSE Nothing,
            file |-> Some(merged),
            source |-> SourceOf(hasG, hasP),
            statePath |-> StatePathOf(hasP, merged, projectFile),
            globalPath |-> "global", projectPath |-> "project"]

(***************************************************************************)
(* config.ts: pure operations on a store                                   *)
(***************************************************************************)
\* a mutant: an existing key is dropped and added again at the end
addPersonalityMovesKey(file, key, definition) ==
  Put(file, "personalities",
      ObjSet(ObjWithout(file.personalities, key), key, definition))

addPersonality(file, key, definition) ==
  Put(file, "personalities", ObjSet(file.personalities, key, definition))

\* a mutant: the active key is kept even when it is the removed one
removePersonalityKeepsActive(file, key) ==
  LET remaining == ObjWithout(file.personalities, key)
      newStates == ObjWithout(StatesOrEmpty(file), key)
      base == [personalities |-> remaining]
      result == IF Has(file, "active") THEN Put(base, "active", file.active) ELSE base
  IN  IF Len(remaining) = 0 THEN Nothing
      ELSE IF Len(newStates) > 0 THEN Some(Put(result, "states", newStates))
      ELSE Some(result)

\* a mutant: null is returned whenever the active key is removed
removePersonalityNullOnActive(file, key) ==
  LET remaining == ObjWithout(file.personalities, key)
      newStates == ObjWithout(StatesOrEmpty(file), key)
      base == [personalities |-> remaining]
      result == IF Has(file, "active") THEN Put(base, "active", file.active) ELSE base
  IN  IF Len(remaining) = 0 \/ Get(file, "active") = key THEN Nothing
      ELSE IF Len(newStates) > 0 THEN Some(Put(result, "states", newStates))
      ELSE Some(result)

\* a mutant: the states map is carried over whole
removePersonalityKeepsStates(file, key) ==
  LET remaining == ObjWithout(file.personalities, key)
      remainingKeys == ObjKeys(remaining)
      newStates == StatesOrEmpty(file)
      base == [personalities |-> remaining]
      result == IF Get(file, "active") = key THEN Put(base, "active", remainingKeys[1])
                ELSE IF Has(file, "active") THEN Put(base, "active", file.active)
                ELSE base
  IN  IF Len(remainingKeys) = 0 THEN Nothing
      ELSE IF Len(newStates) > 0 THEN Some(Put(result, "states", newStates))
      ELSE Some(result)

removePersonality(file, key) ==
  LET remaining == ObjWithout(file.personalities, key)
      remainingKeys == ObjKeys(remaining)
      newStates == ObjWithout(StatesOrEmpty(file), key)
      base == [personalities |-> remaining]
      result == IF Get(file, "active") = key THEN Put(base, "active", remainingKeys[1])
                ELSE IF Has(file, "active") THEN Put(base, "active", file.active)
                ELSE base
  IN  IF Len(remainingKeys) = 0 THEN Nothing
      ELSE IF Len(newStates) > 0 THEN Some(Put(result, "states", newStates))
      ELSE Some(result)

switchActivePersonality(file, name) ==
  IF ~In(name, file.personalities) THEN Nothing
  ELSE Some(Put(file, "active", name))

(***************************************************************************)
(* config.ts: mood resolution and normalization                            *)
(***************************************************************************)
\* a mutant: the profile's own list is the catalog even when it is empty
resolveMoodsOwnList(config) ==
  IF Has(config, "moods") THEN config.moods ELSE DEFAULT_MOODS

resolveMoods(config) ==
  IF Has(config, "moods") /\ Len(config.moods) > 0 THEN config.moods
  ELSE DEFAULT_MOODS

MoodNames(moods) == {moods[i].name : i \in 1..Len(moods)}

\* moods.find(m => m.name === name): the first match
FindMood(moods, name) ==
  moods[CHOOSE i \in 1..Len(moods) :
          /\ moods[i].name = name
          /\ \A j \in 1..(i - 1) : moods[j].name # name]

\* a mutant: the configured default is returned without looking it up
resolveDefaultMoodUnchecked(config, moods) == Get(config.mood, "default")

resolveDefaultMood(config, moods) ==
  IF Get(config.mood, "default") \in MoodNames(moods) THEN config.mood.default
  ELSE IF Len(moods) = 0 THEN DEFAULT_MOOD_CONFIG.default
  ELSE moods[1].name

\* match?.score ?? 0
resolveMoodScore(mood, moods) ==
  IF mood \notin MoodNames(moods) THEN Num(0)
  ELSE LET match == FindMood(moods, mood)
       IN  IF Has(match, "score") /\ match.score.t # "null" THEN match.score
           ELSE Num(0)

\* the truthiness of a string-or-null value
Truthy(v) == v \notin {NULL, UNDEF, ""}

\* a mutant: an override outside the catalog is replaced by the stored current
normalizeStateCarriesCurrent(state, defaultMood, moods) ==
  LET s1 == IF Get(state, "current") \notin MoodNames(moods)
            THEN Put(state, "current", defaultMood) ELSE state
      s2 == IF Truthy(Get(s1, "override")) /\ s1.override \notin MoodNames(moods)
            THEN Put(s1, "override", Get(state, "current")) ELSE s1
  IN  IF Has(s2, "score") /\ NumberIsNaN(s2.score)
      THEN Put(s2, "score", resolveMoodScore(s2.current, moods))
      ELSE s2

normalizeState(state, defaultMood, moods) ==
  LET s1 == IF Get(state, "current") \notin MoodNames(moods)
            THEN Put(state, "current", defaultMood) ELSE state
      s2 == IF Truthy(Get(s1, "override")) /\ s1.override \notin MoodNames(moods)
            THEN Put(s1, "override", NULL) ELSE s1
  IN  IF Has(s2, "score") /\ NumberIsNaN(s2.score)
      THEN Put(s2, "score", resolveMoodScore(s2.current, moods))
      ELSE s2

(***************************************************************************)
(* config.ts: mood state I/O                                               *)
(***************************************************************************)
\* a mutant: the synthesized state ignores the configured override
SynthStateNoOverride(config, defaultMood, moods, t) ==
  [current |-> defaultMood, score |-> resolveMoodScore(defaultMood, moods),
   lastUpdate |-> t, override |-> NULL, overrideExpiry |-> NULL]

\* the state loadMoodState synthesizes when the file stores none
SynthState(config, defaultMood, moods, t) ==
  LET base == [current |-> defaultMood,
               score |-> resolveMoodScore(defaultMood, moods),
               lastUpdate |-> t, overrideExpiry |-> NULL]
  IN  IF Has(config.mood, "override") THEN Put(base, "override", config.mood.override)
      ELSE base

loadMoodState(d, statePath, config, activeKey, t) ==
  LET raw == tryLoadJson(d, statePath)
      moods == resolveMoods(config)
      defaultMood == resolveDefaultMood(config, moods)
  IN  IF raw.kind = "throw" THEN raw
      ELSE IF raw.kind = "some" /\ Has(raw.v, "states") /\ ObjHas(raw.v.states, activeKey)
      THEN Some(normalizeState(ObjGet(raw.v.states, activeKey), defaultMood, moods))
      ELSE IF raw.kind = "some" /\ Has(raw.v, "state")
      THEN Some(normalizeState(raw.v.state, defaultMood, moods))
      ELSE Some(normalizeState(SynthState(config, defaultMood, moods, t),
                               defaultMood, moods))

(***************************************************************************)
(* The file system: the store files and their parent directories           *)
(***************************************************************************)
\* JSON.stringify of a mood state: a NaN score is written as null
JsonState(s) == IF Has(s, "score") /\ s.score.t = "NaN" THEN Put(s, "score", NullNum) ELSE s

JsonStates(o) == [i \in 1..Len(o) |-> [key |-> o[i].key, val |-> JsonState(o[i].val)]]

\* JSON.parse(JSON.stringify(file)): what a later read of the written file gives
JsonStringify(file) ==
  LET f1 == IF Has(file, "states") THEN Put(file, "states", JsonStates(file.states))
            ELSE file
  IN  IF Has(f1, "state") THEN Put(f1, "state", JsonState(f1.state)) ELSE f1

ensureDir(fs, path) == [fs EXCEPT !.dirs[path] = TRUE]

\* a mutant: the write keeps the personalities and the states that the file on
\* disk holds and the written object lacks
writeFileSyncMerging(fs, path, file) ==
  LET old == fs.disk[path]
      keep(f) == IF old.kind = "json" /\ Has(old.data, f) /\ Has(file, f)
                 THEN ObjSpread(old.data[f], file[f]) ELSE Get(file, f)
      merged == [x \in DOMAIN file |->
                   IF x \in {"personalities", "states"} THEN keep(x) ELSE file[x]]
  IN  [fs EXCEPT !.disk[path] = Json(JsonStringify(merged))]

writeFileSync(fs, path, file) == [fs EXCEPT !.disk[path] = Json(JsonStringify(file))]

unlinkSync(fs, path) == [fs EXCEPT !.disk[path] = Absent]

existsSync(fs, path) == fs.disk[path].kind # "absent"

writePersonalityFile(fs, path, file) == writeFileSync(ensureDir(fs, path), path, file)

\* every file operation returns the file system it leaves and whether it threw
Done(fs) == [fs |-> fs, threw |-> FALSE]

Failed(fs) == [fs |-> fs, threw |-> TRUE]

\* a mutant: the other states entries are not carried over
saveMoodStateDropsOthers(fs, statePath, state, activeKey) ==
  LET fs1 == ensureDir(fs, statePath)
      file == loadPersonalityFile(fs1.disk, statePath)
  IN  IF file.kind = "throw" THEN Failed(fs1)
      ELSE IF file.kind = "null" THEN Done(fs1)
      ELSE Done(writeFileSync(fs1, statePath,
                  Put(file.v, "states", ObjSet(EmptyObj, activeKey, state))))

saveMoodState(fs, statePath, state, activeKey) ==
  LET fs1 == ensureDir(fs, statePath)
      file == loadPersonalityFile(fs1.disk, statePath)
  IN  IF file.kind = "throw" THEN Failed(fs1)
      ELSE IF file.kind = "null" THEN Done(fs1)
      ELSE Done(writeFileSync(fs1, statePath,
                  Put(file.v, "states", ObjSet(StatesOrEmpty(file.v), activeKey, state))))

savePersonalityToFile(fs, path, key, definition, setActive) ==
  LET fs1 == ensureDir(fs, path)
      existing == loadPersonalityFile(fs1.disk, path)
      file == IF existing.kind = "some" THEN existing.v
              ELSE [active |-> key, personalities |-> EmptyObj]
      added == Put(file, "personalities", ObjSet(file.personalities, key, definition))
      next == IF setActive \/ ~ObjHas(added.personalities, Get(added, "active"))
              THEN Put(added, "active", key) ELSE added
  IN  IF existing.kind = "throw" THEN Failed(fs1)
      ELSE IF ~Has(file, "personalities") THEN Failed(fs1)
      ELSE Done(writeFileSync(fs1, path, next))

switchActiveInFile(fs, path, name) ==
  LET fs1 == ensureDir(fs, path)
      loaded == loadPersonalityFile(fs1.disk, path)
      file == IF loaded.kind = "some" THEN loaded.v
              ELSE [active |-> name, personalities |-> EmptyObj]
  IN  IF loaded.kind = "throw" THEN Failed(fs1)
      ELSE Done(writeFileSync(fs1, path, Put(file, "active", name)))

(***************************************************************************)
(* The inputs the model draws from                                         *)
(***************************************************************************)
\* the catalog of the drift scenario: bored -2, happy 1, ecstatic 2
CustomMoods ==
  << [name |-> "bored", hint |-> "c-bored", score |-> Num(-20)],
     [name |-> "happy", hint |-> "c-happy", score |-> Num(10)],
     [name |-> "ecstatic", hint |-> "c-ecstatic", score |-> Num(20)] >>

\* the definition a file of variant v stores under key k
DefOf(v, k) ==
  IF v = 1 THEN [description |-> "one", name |-> k, emoji |-> TRUE]
  ELSE [description |-> "two",
        mood |-> [enabled |-> TRUE, default |-> "gone", drift |-> 15],
        moods |-> CustomMoods]

\* the sequences over S without repetition, of length at most n
RECURSIVE SeqsNoDup(_, _)
SeqsNoDup(S, n) ==
  IF n = 0 THEN {<<>>}
  ELSE LET shorter == SeqsNoDup(S, n - 1)
       IN  shorter \cup
           UNION {{Append(q, x) : x \in S \ {q[i] : i \in 1..Len(q)}} : q \in shorter}

\* the object a JSON text with these entries, in this order, parses to
ObjFromSeq(entries) == ObjSpread(EmptyObj, entries)

PersOf(v, ks) == ObjFromSeq([i \in 1..Len(ks) |-> [key |-> ks[i], val |-> DefOf(v, ks[i])]])

\* a stored mood state of variant v
StateOf(v) ==
  IF v = 1
  THEN [current |-> "happy", score |-> Num(10), lastUpdate |-> 0,
        override |-> NULL, overrideExpiry |-> NULL]
  ELSE [current |-> "bored", score |-> Num(-15), lastUpdate |-> 1]

StatesOf(v, ks) == ObjFromSeq([i \in 1..Len(ks) |-> [key |-> ks[i], val |-> StateOf(v)]])

\* the canonical store files with at most n personalities
CanonicalFilesUpTo(n) ==
  { LET base == [active |-> act, personalities |-> PersOf(v, ks)]
    IN  IF st = "none" THEN base
        ELSE IF st = "empty" THEN Put(base, "states", EmptyObj)
        ELSE IF st = "all" THEN Put(base, "states", StatesOf(v, ks))
        ELSE Put(base, "states", StatesOf(v, <<"a">>)) :
      ks \in SeqsNoDup(Keys, n), v \in {1, 2},
      act \in Keys \cup {"gone"}, st \in {"none", "empty", "all", "a"} }

CanonicalFiles == CanonicalFilesUpTo(MaxKeys)

\* the legacy single-personality files
LegacyFiles ==
  { [description |-> "old"],
    Put(Drop(DefOf(1, " b "), "emoji"), "state", StateOf(1)),
    Put(Put(DefOf(2, "a"), "name", "  "), "state", StateOf(2)) }

\* JSON objects that are neither shape
ShapelessFiles == { <<>>, [active |-> "a"] }

FileContents ==
  {Absent, Invalid} \cup {Json(f) : f \in CanonicalFiles \cup LegacyFiles \cup ShapelessFiles}

(***************************************************************************)
(* The plugin: its entry point loads the configuration once               *)
(***************************************************************************)
Down == [kind |-> "down"]

Idle == [op |-> "none"]

\* personalityPlugin: configResult = loadConfigWithPrecedence(directory)
PluginInit ==
  /\ sess = Down
  /\ sess' = loadConfigWithPrecedence(disk)
  /\ UNCHANGED <<disk, dirs, now, last>>

(***************************************************************************)
(* config.ts: scope resolution and parsing helpers                         *)
(***************************************************************************)
\* no --scope flag on the command line
NoFlag == "<none>"

\* String.prototype.toLowerCase on the words the model uses
Lower(s) == CASE s = "Happy" -> "happy"
              [] s = "GLOBAL" -> "global"
              [] OTHER -> s

resolveScope(scopeFlag, configResult, fs) ==
  IF scopeFlag # NoFlag /\ Lower(scopeFlag) \in {"global", "project"} THEN Lower(scopeFlag)
  ELSE IF existsSync(fs, configResult.projectPath) THEN "project"
  ELSE IF existsSync(fs, configResult.globalPath) THEN "global"
  ELSE "project"

resolveScopePath(scope, configResult) ==
  IF scope = "project" THEN configResult.projectPath ELSE configResult.globalPath

\* parseBoolean: TRUE/FALSE as strings, NULL when the word is neither
parseBoolean(value) ==
  IF Lower(value) \in {"true", "1", "yes", "y"} THEN "true"
  ELSE IF Lower(value) \in {"false", "0", "no", "n"} THEN "false"
  ELSE NULL

\* parseNumber on the words the model uses, in tenths; NaN when not a number
parseNumber(value) ==
  CASE value = "0.5" -> Num(5)
    [] value = "1" -> Num(10)
    [] OTHER -> NaN

(***************************************************************************)
(* commands/personality.ts: handlePersonalityCommand                       *)
(***************************************************************************)
applyFieldUpdate(config, field, value) ==
  LET trimmed == Trim(value)
  IN  IF trimmed = "" THEN config
      ELSE CASE field = "name" -> Put(config, "name", trimmed)
             [] field = "description" -> Put(config, "description", trimmed)
             [] field = "emoji" ->
                  IF parseBoolean(trimmed) = NULL THEN config
                  ELSE Put(config, "emoji", parseBoolean(trimmed) = "true")
             [] field = "slangIntensity" ->
                  IF NumberIsNaN(parseNumber(trimmed)) THEN config
                  ELSE Put(config, "slangIntensity", parseNumber(trimmed).n)
             [] field = "mood.enabled" ->
                  IF parseBoolean(trimmed) = NULL THEN config
                  ELSE Put(config, "mood",
                           Put(config.mood, "enabled", parseBoolean(trimmed) = "true"))
             [] field = "mood.default" ->
                  Put(config, "mood", Put(config.mood, "default", trimmed))
             [] field = "mood.drift" ->
                  IF NumberIsNaN(parseNumber(trimmed)) THEN config
                  ELSE Put(config, "mood", Put(config.mood, "drift", parseNumber(trimmed).n))
             [] OTHER -> config

\* what a handler leaves: the file system, whether it threw, and its message
Reply(fs, msg) == [fs |-> fs, threw |-> FALSE, msg |-> msg]

Crash(fs) == [fs |-> fs, threw |-> TRUE, msg |-> "error"]

\* the locals every subcommand of handlePersonalityCommand starts from
CommandConfig(configResult) ==
  IF configResult.config.kind = "some" THEN mergeWithDefaults(configResult.config.v)
  ELSE mergeWithDefaults(<<>>)

CommandActiveKey(configResult) ==
  IF configResult.file.kind = "some" /\ Has(configResult.file.v, "active")
  THEN configResult.file.v.active ELSE "default"

\* /personality switch <name> [--scope s]
CommandSwitch(fs, configResult, targetName, scopeFlag) ==
  LET file == configResult.file
      scopePath == resolveScopePath(resolveScope(scopeFlag, configResult, fs), configResult)
  IN  IF file.kind # "some" THEN Reply(fs, "none-configured")
      ELSE IF targetName = UNDEF THEN Reply(fs, "usage")
      ELSE IF ~In(targetName, file.v.personalities) THEN Reply(fs, "not-found")
      ELSE IF targetName = Get(file.v, "active") THEN Reply(fs, "already-active")
      ELSE LET r == switchActiveInFile(fs, scopePath, targetName)
           IN  IF r.threw THEN Crash(r.fs) ELSE Reply(r.fs, "switched")

\* /personality edit --field f --value v [--scope s]
CommandEdit(fs, configResult, field, value, scopeFlag) ==
  LET scopePath == resolveScopePath(resolveScope(scopeFlag, configResult, fs), configResult)
      nextConfig == applyFieldUpdate(CommandConfig(configResult), field, value)
  IN  IF configResult.file.kind # "some" THEN Reply(fs, "nothing-to-edit")
      ELSE LET r == savePersonalityToFile(fs, scopePath, CommandActiveKey(configResult),
                                          nextConfig, FALSE)
           IN  IF r.threw THEN Crash(r.fs) ELSE Reply(r.fs, "updated")

\* /personality reset --name n --confirm [--scope s]
CommandResetName(fs, configResult, targetName, scopeFlag) ==
  LET scopePath == resolveScopePath(resolveScope(scopeFlag, configResult, fs), configResult)
      scopeFile == loadPersonalityFile(fs.disk, scopePath)
      nextFile == removePersonality(scopeFile.v, targetName)
  IN  IF scopeFile.kind = "throw" THEN Crash(fs)
      ELSE IF scopeFile.kind = "null" THEN Reply(fs, "no-config")
      ELSE IF ~Has(scopeFile.v, "personalities") THEN Crash(fs)
      ELSE IF ~In(targetName, scopeFile.v.personalities) THEN Reply(fs, "not-found")
      ELSE IF nextFile = Nothing
      THEN Reply(IF existsSync(fs, scopePath) THEN unlinkSync(fs, scopePath) ELSE fs,
                 "removed-last")
      ELSE Reply(writePersonalityFile(fs, scopePath, nextFile.v), "removed")

\* /personality reset --confirm [--scope s]
CommandReset(fs, configResult, scopeFlag) ==
  LET scopePath == resolveScopePath(resolveScope(scopeFlag, configResult, fs), configResult)
  IN  IF existsSync(fs, scopePath) THEN Reply(unlinkSync(fs, scopePath), "reset")
      ELSE Reply(fs, "no-config")

(***************************************************************************)
(* tools/savePersonality.ts: the savePersonality tool                      *)
(***************************************************************************)
\* execute(args): args.name may be UNDEF, args.scope may be UNDEF
SavePersonalityTool(fs, configResult, args) ==
  LET scope == IF args.scope = UNDEF THEN "project" ELSE args.scope
      scopePath == resolveScopePath(scope, configResult)
      config == [name |-> IF args.name = UNDEF THEN "" ELSE Trim(args.name),
                 description |-> Trim(args.description),
                 emoji |-> FALSE, slangIntensity |-> 0,
                 mood |-> [enabled |-> args.moodEnabled, default |-> "happy",
                           override |-> NULL, drift |-> 2, toast |-> TRUE]]
      merged == mergeWithDefaults(config)
  IN  IF Trim(args.description) = "" THEN Reply(fs, "description-required")
      ELSE Reply(writePersonalityFile(fs, scopePath, merged), "saved")

(***************************************************************************)
(* commands/mood.ts: handleMoodCommand                                     *)
(***************************************************************************)
\* a mutant: the mood is pinned only when mood drift is enabled
handleMoodCommandGated(fs, args, statePath, config, moods, activeKey, t) ==
  LET trimmed == Lower(Trim(args))
      state == loadMoodState(fs.disk, statePath, config, activeKey, t)
      pinned == Put(Put(Put(state.v, "override", trimmed), "current", trimmed),
                    "overrideExpiry", NULL)
  IN  IF state.kind = "throw" THEN Crash(fs)
      ELSE IF trimmed = "" \/ trimmed = "status" THEN Reply(fs, "status")
      ELSE IF trimmed \notin MoodNames(moods) THEN Reply(fs, "invalid-mood")
      ELSE IF ~config.mood.enabled THEN Reply(fs, "mood-set")
      ELSE LET r == saveMoodState(fs, statePath, pinned, activeKey)
           IN  IF r.threw THEN Crash(r.fs) ELSE Reply(r.fs, "mood-set")

handleMoodCommand(fs, args, statePath, config, moods, activeKey, t) ==
  LET trimmed == Lower(Trim(args))
      state == loadMoodState(fs.disk, statePath, config, activeKey, t)
      pinned == Put(Put(Put(state.v, "override", trimmed), "current", trimmed),
                    "overrideExpiry", NULL)
  IN  IF state.kind = "throw" THEN Crash(fs)
      ELSE IF trimmed = "" \/ trimmed = "status" THEN Reply(fs, "status")
      ELSE IF trimmed \notin MoodNames(moods) THEN Reply(fs, "invalid-mood")
      ELSE LET r == saveMoodState(fs, statePath, pinned, activeKey)
           IN  IF r.threw THEN Crash(r.fs) ELSE Reply(r.fs, "mood-set")

(***************************************************************************)
(* SpecLoad: loadConfigWithPrecedence on every pair of store files         *)
(***************************************************************************)
InitLoad ==
  /\ disk \in [Paths -> FileContents]
  /\ dirs = [p \in Paths |-> TRUE]
  /\ now = 0
  /\ sess = Down
  /\ last = Idle

\* loadMoodState(statePath, config, activeKey) with what the load resolved
LoadActiveState ==
  /\ sess.kind = "ok" /\ sess.config.kind = "some"
  /\ last = Idle
  /\ last' = [op |-> "loadActiveState", key |-> sess.file.v.active,
              out |-> loadMoodState(disk, sess.statePath, sess.config.v,
                                    sess.file.v.active, now)]
  /\ UNCHANGED <<disk, dirs, now, sess>>

NextLoad == PluginInit \/ LoadActiveState

SpecLoad == InitLoad /\ [][NextLoad]_vars

(***************************************************************************)
(* Claims about loadConfigWithPrecedence (SpecLoad)                        *)
(***************************************************************************)
GlobalLayer == loadPersonalityFile(disk, "global")

ProjectLayer == loadPersonalityFile(disk, "project")

BothExist == GlobalLayer.kind = "some" /\ ProjectLayer.kind = "some"

\* the plugin holds a result built from two existing layers
LoadedBoth == sess.kind = "ok" /\ BothExist

\* C1: with both stores, the merged personalities have the union of both key
\* sets, a key of the project store maps to the whole project definition, and
\* a key only in the global store keeps the global definition
C1_MergedPersonalities ==
  LoadedBoth =>
    LET m == sess.file.v.personalities
        g == PersOrEmpty(GlobalLayer.v)
        p == PersOrEmpty(ProjectLayer.v)
    IN  /\ ObjKeySet(m) = ObjKeySet(g) \cup ObjKeySet(p)
        /\ \A k \in ObjKeySet(p) : ObjGet(m, k) = ObjGet(p, k)
        /\ \A k \in ObjKeySet(g) \ ObjKeySet(p) : ObjGet(m, k) = ObjGet(g, k)

\* a merge in which a shared key has a global definition with fields the
\* project definition lacks, next to a key only the global store has
C1_Witness ==
  /\ LoadedBoth
  /\ LET g == PersOrEmpty(GlobalLayer.v)
         p == PersOrEmpty(ProjectLayer.v)
     IN  /\ \E k \in ObjKeySet(g) \cap ObjKeySet(p) :
               DOMAIN ObjGet(g, k) \ DOMAIN ObjGet(p, k) # {}
         /\ ObjKeySet(g) \ ObjKeySet(p) # {}

\* the active key the result started from, before any fallback
ChosenActive ==
  IF BothExist THEN Get(ProjectLayer.v, "active")
  ELSE IF ProjectLayer.kind = "some" THEN Get(ProjectLayer.v, "active")
  ELSE Get(GlobalLayer.v, "active")

\* global's keys in global's order followed by the project-only keys
GlobalThenProjectKeys ==
  LET g == IF GlobalLayer.kind = "some" THEN ObjKeys(PersOrEmpty(GlobalLayer.v)) ELSE <<>>
      p == IF ProjectLayer.kind = "some" THEN ObjKeys(PersOrEmpty(ProjectLayer.v)) ELSE <<>>
  IN  g \o SelectSeq(p, LAMBDA k : \A i \in 1..Len(g) : g[i] # k)

RECURSIVE IndexKeysAscending(_)
\* the array-index keys of a set, in ascending numeric order
IndexKeysAscending(S) ==
  IF S = {} THEN <<>>
  ELSE LET least == CHOOSE k \in S : \A other \in S : IndexValue(k) <= IndexValue(other)
       IN  <<least>> \o IndexKeysAscending(S \ {least})

\* JavaScript property order of keys inserted in the order of ks
PropertyOrder(ks) ==
  IndexKeysAscending({ks[i] : i \in {j \in 1..Len(ks) : IsArrayIndex(ks[j])}})
    \o SelectSeq(ks, LAMBDA k : ~IsArrayIndex(k))

\* a result with a store that has at least one profile
LoadedWithProfiles ==
  /\ sess.kind = "ok"
  /\ sess.file.kind = "some"
  /\ Len(sess.file.v.personalities) > 0

C4_SourceAndStatePath ==
  sess.kind = "ok" =>
    LET hasG == GlobalLayer.kind = "some"
        hasP == ProjectLayer.kind = "some"
    IN  /\ (~hasG /\ ~hasP) =>
              /\ sess.source = "none" /\ sess.config = Nothing
              /\ sess.file = Nothing /\ sess.statePath = ""
        /\ (hasG /\ ~hasP) => sess.source = "global" /\ sess.statePath = sess.globalPath
        /\ (~hasG /\ hasP) => sess.source = "project" /\ sess.statePath = sess.projectPath
        /\ (hasG /\ hasP) => sess.source = "both" /\ sess.statePath = sess.projectPath
        /\ sess.globalPath = "global" /\ sess.projectPath = "project"

\* both layers exist and the active profile is defined only in the global store
C4_Witness ==
  /\ LoadedBoth
  /\ sess.source = "both"
  /\ sess.statePath = "project"
  /\ ObjHas(PersOrEmpty(GlobalLayer.v), Get(sess.file.v, "active"))
  /\ ~ObjHas(PersOrEmpty(ProjectLayer.v), Get(sess.file.v, "active"))

\* C5: with both stores, the merged states have the union of both states' keys,
\* the project's state is taken whole on a shared key, and a merged store
\* without any state has no states field
C5_MergedStates ==
  LoadedBoth =>
    LET m == StatesOrEmpty(sess.file.v)
        g == StatesOrEmpty(GlobalLayer.v)
        p == StatesOrEmpty(ProjectLayer.v)
    IN  /\ ObjKeySet(m) = ObjKeySet(g) \cup ObjKeySet(p)
        /\ \A k \in ObjKeySet(p) : ObjGet(m, k) = ObjGet(p, k)
        /\ \A k \in ObjKeySet(g) \ ObjKeySet(p) : ObjGet(m, k) = ObjGet(g, k)
        /\ (ObjKeySet(g) \cup ObjKeySet(p) = {}) => ~Has(sess.file.v, "states")

\* both layers hold a state for the same key, the global one with fields the
\* project one lacks
C5_Witness ==
  /\ LoadedBoth
  /\ \E k \in ObjKeySet(StatesOrEmpty(GlobalLayer.v))
               \cap ObjKeySet(StatesOrEmpty(ProjectLayer.v)) :
        /\ DOMAIN ObjGet(GlobalLayer.v.states, k) \ DOMAIN ObjGet(ProjectLayer.v.states, k) # {}
        /\ ObjGet(sess.file.v.states, k) = ObjGet(ProjectLayer.v.states, k)

\* both layers exist, one with an empty states map, and the merged store has
\* no states field
C5_WitnessNoStates ==
  /\ LoadedBoth
  /\ Has(GlobalLayer.v, "states")
  /\ ~Has(sess.file.v, "states")

\* the only existing layer is a file with a description and no personalities
LoadedLegacyAlone(p) ==
  /\ sess.kind = "ok"
  /\ sess.source = p
  /\ disk[p].kind = "json"
  /\ Has(disk[p].data, "description")
  /\ ~Has(disk[p].data, "personalities")

\* the key a legacy object is filed under
LegacyKey(legacy) ==
  IF ~Has(legacy, "name") \/ Trim(legacy.name) = "" THEN "default" ELSE Trim(legacy.name)

\* C13: a legacy object decodes to a store with exactly one profile, under the
\* trimmed name or "default", active on that key, the profile being the object
\* without its state field, and states[key] the embedded state if there was one
C13_LegacyDecoded ==
  \A p \in Paths :
    LoadedLegacyAlone(p) =>
      LET legacy == disk[p].data
          key == LegacyKey(legacy)
          file == sess.file.v
      IN  /\ ObjKeys(file.personalities) = <<key>>
          /\ file.active = key
          /\ ObjGet(file.personalities, key) = [f \in DOMAIN legacy \ {"state"} |-> legacy[f]]
          /\ Has(legacy, "state") =>
                /\ ObjKeys(file.states) = <<key>>
                /\ ObjGet(file.states, key) = legacy.state
          /\ ~Has(legacy, "state") => ~Has(file, "states")
          /\ DOMAIN file \subseteq {"active", "personalities", "states"}

\* a legacy file whose name needs trimming and which embeds a state
C13_Witness ==
  \E p \in Paths :
    /\ LoadedLegacyAlone(p)
    /\ Has(disk[p].data, "state")
    /\ Has(disk[p].data, "name")
    /\ Trim(disk[p].data.name) \notin {disk[p].data.name, ""}
    /\ sess.file.v.active = Trim(disk[p].data.name)

\* a legacy file with a blank name is filed under "default"
C13_WitnessDefault ==
  \E p \in Paths :
    /\ LoadedLegacyAlone(p)
    /\ Has(disk[p].data, "name")
    /\ Has(disk[p].data, "moods")
    /\ sess.file.v.active = "default"

\* the other layer's path
OtherPath(p) == IF p = "global" THEN "project" ELSE "global"

\* C16: a missing file gives a null layer and no error, for either layer (the
\* result is built from the other layer alone, or is the "none" result); a
\* file that is not JSON makes the whole load fail with the parse error
C16_AbsentIsNullInvalidFails ==
  sess # Down =>
    /\ (\E p \in Paths : disk[p] = Invalid) => sess = Throw("SyntaxError")
    /\ (\A p \in Paths : disk[p] # Invalid) =>
          /\ sess # Throw("SyntaxError")
          /\ \A p \in Paths :
                disk[p] = Absent =>
                  LET q == OtherPath(p)
                  IN  IF disk[q] = Absent
                      THEN sess.kind = "ok" /\ sess.source = "none" /\ sess.file = Nothing
                      ELSE /\ sess.kind = "ok" =>
                                /\ sess.source = q
                                /\ sess.file.v.personalities = StoreAt(disk, q).personalities
                           /\ sess.kind = "throw" =>
                                ~Has(StoreAt(disk, q), "personalities")

\* one file is not JSON while the other holds a store with profiles
C16_Witness ==
  /\ sess = Throw("SyntaxError")
  /\ \E p \in Paths :
        /\ disk[p] = Invalid
        /\ disk[OtherPath(p)].kind = "json"
        /\ Len(PersOrEmpty(StoreAt(disk, OtherPath(p)))) > 0

\* the global file is missing and the result is built from the project file
C16_WitnessAbsent ==
  /\ sess.kind = "ok"
  /\ disk["global"] = Absent
  /\ sess.source = "project"
  /\ Len(sess.file.v.personalities) > 0

\* C17: when every store file is absent or valid JSON, whatever its shape, the
\* load returns a result
C17_ValidJsonAlwaysLoads ==
  (sess # Down /\ \A p \in Paths : disk[p] # Invalid) => sess.kind = "ok"

\* the state the resolver's merged store holds for the active key, if any
MergedActiveState ==
  IF Has(sess.file.v, "states") /\ ObjHas(sess.file.v.states, last.key)
  THEN Some(ObjGet(sess.file.v.states, last.key))
  ELSE Nothing

\* the normalization loadMoodState applies under the resolved definition
NormalizedFor(state) ==
  LET moods == resolveMoods(sess.config.v)
  IN  normalizeState(state, resolveDefaultMood(sess.config.v, moods), moods)

\* C36: when the merged store holds a state for the active key, loadMoodState
\* on the resolved state path returns the normalization of that state, also
\* when both layers exist and only the global file stores it
C36_LoadReturnsMergedState ==
  (last.op = "loadActiveState" /\ MergedActiveState.kind = "some") =>
    last.out = Some(NormalizedFor(MergedActiveState.v))

(***************************************************************************)
(* SpecMood: loadMoodState and saveMoodState on every stored state         *)
(***************************************************************************)
\* the mood states a store file can hold (JSON has no NaN)
StoredStates ==
  { LET s0 == [lastUpdate |-> 0, overrideExpiry |-> NULL]
        s1 == IF cur = UNDEF THEN s0 ELSE Put(s0, "current", cur)
        s2 == IF ov = UNDEF THEN s1 ELSE Put(s1, "override", ov)
    IN  IF sc = "absent" THEN s2
        ELSE IF sc = "null" THEN Put(s2, "score", NullNum)
        ELSE Put(s2, "score", Num(5)) :
      cur \in {"happy", "angry", "gone", UNDEF},
      ov \in {NULL, "angry", "gone", "", UNDEF},
      sc \in {"number", "null", "absent"} }

\* the mood states a caller can hand to saveMoodState
CallerStates ==
  { [current |-> cur, score |-> sc, lastUpdate |-> 1, override |-> ov,
     overrideExpiry |-> NULL] :
      cur \in {"happy", "bored"}, sc \in {Num(5), NaN}, ov \in {NULL, "bored"} }

\* the files at the state path: each stored state under key "a" next to a state
\* of key "b", each stored state as a legacy state field, and files without state
MoodFiles ==
  { [active |-> "a", personalities |-> PersOf(1, <<"a", "b">>),
     states |-> <<[key |-> "a", val |-> s], [key |-> "b", val |-> StateOf(2)]>>] :
      s \in StoredStates }
  \cup { Put(DefOf(1, "a"), "state", s) : s \in StoredStates }
  \cup { [active |-> "b", personalities |-> PersOf(2, <<"a", "b">>)],
         [active |-> "a", personalities |-> PersOf(1, <<"a">>), states |-> EmptyObj],
         [description |-> "old"],
         <<>> }

MoodFileContents == {Absent, Invalid} \cup {Json(f) : f \in MoodFiles}

\* the resolved definitions loadMoodState is called with
MoodConfigs ==
  { mergeWithDefaults(
      LET m0 == [enabled |-> TRUE, default |-> dflt]
          m1 == IF ov = UNDEF THEN m0 ELSE Put(m0, "override", ov)
          d0 == [description |-> "moody", mood |-> m1]
      IN  IF custom THEN Put(d0, "moods", CustomMoods) ELSE d0) :
      dflt \in {"happy", "gone"}, ov \in {UNDEF, NULL, "angry", "gone"},
      custom \in BOOLEAN }

InitMood ==
  /\ disk \in [Paths -> MoodFileContents]
  /\ disk["global"] \in {Absent, Json([active |-> "b", personalities |-> PersOf(2, <<"a", "b">>)])}
  /\ dirs \in [Paths -> BOOLEAN]
  /\ \A p \in Paths : disk[p].kind # "absent" => dirs[p]
  /\ now \in 0..MaxNow
  /\ sess = Down
  /\ last = Idle

\* a hook or command reads the mood state of a profile
LoadMood ==
  /\ last = Idle
  /\ \E path \in Paths, config \in MoodConfigs, key \in {"a", "b", UNDEF} :
       last' = [op |-> "loadMoodState", path |-> path, config |-> config, key |-> key,
                out |-> loadMoodState(disk, path, config, key, now)]
  /\ UNCHANGED <<disk, dirs, now, sess>>

\* a caller persists the mood state of a profile
SaveMood ==
  /\ last = Idle
  /\ \E path \in Paths, state \in CallerStates, key \in {"a", "b"} :
       LET r == saveMoodState([disk |-> disk, dirs |-> dirs], path, state, key)
       IN  /\ disk' = r.fs.disk
           /\ dirs' = r.fs.dirs
           /\ last' = [op |-> "saveMoodState", path |-> path, state |-> state,
                       key |-> key, threw |-> r.threw,
                       before |-> [disk |-> disk, dirs |-> dirs]]
  /\ UNCHANGED <<now, sess>>

NextMood == LoadMood \/ SaveMood

SpecMood == InitMood /\ [][NextMood]_vars

(***************************************************************************)
(* Claims about loadMoodState and saveMoodState (SpecMood)                 *)
(***************************************************************************)
\* loadMoodState has been called on a file that is absent or valid JSON
MoodLoaded == last.op = "loadMoodState" /\ disk[last.path].kind # "invalid"

\* C6 as stated: the loaded state's current names a catalog entry and its
\* override is null (or absent) or names a catalog entry, and the load does
\* not fail
C6_LoadedStateNamesCatalog ==
  MoodLoaded =>
    /\ last.out.kind = "some"
    /\ Get(last.out.v, "current") \in MoodNames(resolveMoods(last.config))
    /\ Get(last.out.v, "override")
         \in {NULL, UNDEF} \cup MoodNames(resolveMoods(last.config))

\* C6, amended: the override is either unset (null or absent, or an empty
\* string left as stored) or names a catalog entry
C6_LoadedStateNamesCatalogOrUnset ==
  MoodLoaded =>
    /\ last.out.kind = "some"
    /\ Get(last.out.v, "current") \in MoodNames(resolveMoods(last.config))
    /\ Get(last.out.v, "override")
         \in {NULL, "", UNDEF} \cup MoodNames(resolveMoods(last.config))

\* the state stored for the loaded key, when the file stores one
StoredFor(d, path, key) ==
  IF d[path].kind = "json" /\ Has(d[path].data, "states")
     /\ ObjHas(d[path].data.states, key)
  THEN Some(ObjGet(d[path].data.states, key))
  ELSE IF d[path].kind = "json" /\ Has(d[path].data, "state")
  THEN Some(d[path].data.state)
  ELSE Nothing

\* a stored state whose current and override both name no catalog entry is
\* loaded under a configured default that names none either
C6_Witness ==
  /\ MoodLoaded
  /\ StoredFor(disk, last.path, last.key).kind = "some"
  /\ LET stored == StoredFor(disk, last.path, last.key).v
         names == MoodNames(resolveMoods(last.config))
     IN  /\ Get(stored, "current") \notin names
         /\ Truthy(Get(stored, "override")) /\ stored.override \notin names
         /\ last.config.mood.default \notin names
         /\ last.out.v.current = resolveMoods(last.config)[1].name
         /\ last.out.v.override = NULL

\* saveMoodState has returned
MoodSaved == last.op = "saveMoodState" /\ ~last.threw

\* the store saveMoodState read
StoreBefore == loadPersonalityFile(last.before.disk, last.path)

\* C7 as stated: without a store file nothing changes; with one, the written
\* store has states[key] = state and the other states, the profiles and the
\* active key of the store read just before
C7_SaveTouchesOneState ==
  MoodSaved =>
    IF StoreBefore.kind = "null"
    THEN disk = last.before.disk /\ dirs = last.before.dirs
    ELSE LET old == StoreBefore.v
             new == disk[last.path].data
         IN  /\ ObjGet(new.states, last.key) = last.state
             /\ \A k \in ObjKeySet(StatesOrEmpty(old)) \ {last.key} :
                   ObjHas(new.states, k) /\ ObjGet(new.states, k) = ObjGet(old.states, k)
             /\ ObjKeySet(new.states) = ObjKeySet(StatesOrEmpty(old)) \cup {last.key}
             /\ PersOrEmpty(new) = PersOrEmpty(old)
             /\ Get(new, "active") = Get(old, "active")
             /\ \A p \in Paths \ {last.path} : disk[p] = last.before.disk[p]

\* C7, amended: without a store file no file changes (only the missing parent
\* directory is created); with one, states[key] is the JSON image of state (a
\* NaN score is stored as null) and the rest of the store is as read
C7_SaveTouchesOneStateAsJson ==
  MoodSaved =>
    IF StoreBefore.kind = "null"
    THEN /\ disk = last.before.disk
         /\ \A p \in Paths \ {last.path} : dirs[p] = last.before.dirs[p]
    ELSE LET old == StoreBefore.v
             new == disk[last.path].data
         IN  /\ ObjGet(new.states, last.key) = JsonState(last.state)
             /\ \A k \in ObjKeySet(StatesOrEmpty(old)) \ {last.key} :
                   ObjHas(new.states, k) /\ ObjGet(new.states, k) = ObjGet(old.states, k)
             /\ ObjKeySet(new.states) = ObjKeySet(StatesOrEmpty(old)) \cup {last.key}
             /\ PersOrEmpty(new) = PersOrEmpty(old)
             /\ Get(new, "active") = Get(old, "active")
             /\ Has(new, "personalities") = Has(old, "personalities")
             /\ \A p \in Paths \ {last.path} : disk[p] = last.before.disk[p]
             /\ dirs = last.before.dirs

\* a state saved for one key into a store that holds a state for another key
C7_Witness ==
  /\ MoodSaved
  /\ StoreBefore.kind = "some"
  /\ last.state.score.t = "number"
  /\ \E k \in ObjKeySet(StatesOrEmpty(StoreBefore.v)) \ {last.key} :
        ObjGet(disk[last.path].data.states, k) = ObjGet(StoreBefore.v.states, k)
  /\ ObjHas(StatesOrEmpty(StoreBefore.v), last.key)
  /\ ObjGet(StoreBefore.v.states, last.key) # last.state

\* a state saved to a path that has no store file
C7_WitnessNoStore ==
  /\ MoodSaved
  /\ StoreBefore.kind = "null"
  /\ disk[last.path] = Absent

\* the file at the loaded path, when it is a JSON object
LoadedRaw == disk[last.path].data

\* the file stores a state under the loaded key
HasKeyedState ==
  /\ disk[last.path].kind = "json"
  /\ Has(LoadedRaw, "states")
  /\ ObjHas(LoadedRaw.states, last.key)

\* the file has the single state field of the legacy shape
HasLegacyState == disk[last.path].kind = "json" /\ Has(LoadedRaw, "state")

C18_WitnessSynthesized ==
  /\ MoodLoaded
  /\ ~HasKeyedState /\ ~HasLegacyState
  /\ last.config.mood.override = "angry"
  /\ last.out.v.override = "angry"
  /\ last.out.v.current = "happy"
  /\ last.out.v.lastUpdate = now

\* the state stored under the key is taken
C18_WitnessKeyed ==
  /\ MoodLoaded
  /\ HasKeyedState
  /\ HasLegacyState = FALSE
  /\ Get(ObjGet(LoadedRaw.states, last.key), "current") = "angry"
  /\ last.out.v.current = "angry"

(***************************************************************************)
(* SpecCrud: the pure store operations on every store                      *)
(***************************************************************************)
CrudFiles == CanonicalFilesUpTo(MaxKeys + 1) \cup LegacyFiles

InitCrud ==
  /\ disk \in [Paths -> {Absent} \cup {Json(f) : f \in CrudFiles}]
  /\ disk["global"] = Absent
  /\ dirs = [p \in Paths |-> TRUE]
  /\ now = 0
  /\ sess = Down
  /\ last = Idle

\* removePersonality on the store a file decodes to
Remove ==
  /\ last = Idle
  /\ \E path \in Paths, key \in Keys \cup {"default", "gone"} :
       LET file == loadPersonalityFile(disk, path)
       IN  /\ file.kind = "some"
           /\ last' = [op |-> "removePersonality", file |-> file.v, key |-> key,
                       out |-> removePersonality(file.v, key)]
  /\ UNCHANGED <<disk, dirs, now, sess>>

\* switchActivePersonality on the store a file decodes to
SwitchActive ==
  /\ last = Idle
  /\ \E path \in Paths, name \in Keys \cup {"gone", "toString"} :
       LET file == loadPersonalityFile(disk, path)
       IN  /\ file.kind = "some"
           /\ last' = [op |-> "switchActivePersonality", file |-> file.v, key |-> name,
                       out |-> switchActivePersonality(file.v, name)]
  /\ UNCHANGED <<disk, dirs, now, sess>>

\* switchActiveInFile on a path
SwitchFile ==
  /\ last = Idle
  /\ \E path \in Paths, name \in Keys \cup {"gone"} :
       LET r == switchActiveInFile([disk |-> disk, dirs |-> dirs], path, name)
       IN  /\ disk' = r.fs.disk
           /\ dirs' = r.fs.dirs
           /\ last' = [op |-> "switchActiveInFile", path |-> path, key |-> name,
                       before |-> disk[path], threw |-> r.threw]
  /\ UNCHANGED <<now, sess>>

\* addPersonality on the store a file decodes to
Add ==
  /\ last = Idle
  /\ \E path \in Paths, key \in Keys \cup {"gone"} :
       LET file == loadPersonalityFile(disk, path)
       IN  /\ file.kind = "some"
           /\ last' = [op |-> "addPersonality", file |-> file.v, key |-> key,
                       definition |-> [description |-> "added", emoji |-> FALSE],
                       out |-> addPersonality(file.v, key,
                                 [description |-> "added", emoji |-> FALSE])]
  /\ UNCHANGED <<disk, dirs, now, sess>>

NextCrud == Remove \/ SwitchActive \/ SwitchFile \/ Add

SpecCrud == InitCrud /\ [][NextCrud]_vars

(***************************************************************************)
(* Claims about removePersonality (SpecCrud)                               *)
(***************************************************************************)
Removed == last.op = "removePersonality"

\* the keys of the input store other than the removed one, in the store's order
RemainingKeys == SelectSeq(ObjKeys(last.file.personalities), LAMBDA k : k # last.key)

C9_WitnessOther ==
  /\ Removed
  /\ Len(last.file.personalities) >= 2
  /\ ObjHas(last.file.personalities, last.key)
  /\ ObjHas(last.file.personalities, last.file.active)
  /\ last.key # last.file.active
  /\ last.out.v.active = last.file.active

\* C10: removePersonality returns null exactly when no profile remains, and
\* otherwise a store with a non-empty profiles map
C10_NullIffNoneRemain ==
  Removed =>
    /\ (last.out = Nothing) <=> (ObjKeySet(last.file.personalities) \ {last.key} = {})
    /\ last.out # Nothing =>
         /\ last.out.kind = "some"
         /\ Len(last.out.v.personalities) > 0

\* the sole profile of a store is removed
C10_Witness ==
  /\ Removed
  /\ ObjKeys(last.file.personalities) = <<last.key>>
  /\ last.out = Nothing

\* C11: a non-null result of removePersonality has no states entry for the
\* removed key and has every other states entry of the input, unchanged and in
\* the input's order
C11_RemoveDropsOwnState ==
  (Removed /\ last.out # Nothing) =>
    LET old == StatesOrEmpty(last.file)
        new == StatesOrEmpty(last.out.v)
    IN  /\ ~ObjHas(new, last.key)
        /\ ObjKeys(new) = SelectSeq(ObjKeys(old), LAMBDA k : k # last.key)
        /\ \A k \in ObjKeySet(old) \ {last.key} : ObjGet(new, k) = ObjGet(old, k)
        /\ Has(last.out.v, "states") => Len(last.out.v.states) > 0

\* a profile that has a stored state is removed from a store that holds the
\* state of another profile too
C11_Witness ==
  /\ Removed
  /\ last.out # Nothing
  /\ ObjHas(last.file.personalities, last.key)
  /\ ObjHas(StatesOrEmpty(last.file), last.key)
  /\ \E k \in ObjKeySet(StatesOrEmpty(last.file)) \ {last.key} :
        ObjGet(last.out.v.states, k) = ObjGet(last.file.states, k)

(***************************************************************************)
(* The mood engine's drift (mood.ts is not part of the sources: drift is    *)
(* modelled from section 4.3 of the specification)                          *)
(***************************************************************************)
\* an expiry timestamp is written as a string so that it compares with NULL
Stamp(n) == CASE n = 0 -> "t0" [] n = 1 -> "t1" [] n = 2 -> "t2"
              [] n = 3 -> "t3" [] OTHER -> "t4"

StampTime(e) == CHOOSE n \in 0..4 : Stamp(n) = e

\* the override is set and has not expired at time t
OverridePinned(state, t) ==
  /\ Truthy(Get(state, "override"))
  /\ \/ Get(state, "overrideExpiry") \in {NULL, UNDEF}
     \/ StampTime(state.overrideExpiry) > t

Abs(n) == IF n < 0 THEN -n ELSE n

MinScore(moods) ==
  CHOOSE m \in {moods[i].score.n : i \in 1..Len(moods)} :
    \A i \in 1..Len(moods) : m <= moods[i].score.n

MaxScore(moods) ==
  CHOOSE m \in {moods[i].score.n : i \in 1..Len(moods)} :
    \A i \in 1..Len(moods) : m >= moods[i].score.n

Clamp(n, lo, hi) == IF n < lo THEN lo ELSE IF n > hi THEN hi ELSE n

\* the entry whose score is closest to n, the earliest one on a tie
ClosestMood(moods, n) ==
  moods[CHOOSE i \in 1..Len(moods) :
          /\ \A j \in 1..Len(moods) : Abs(moods[i].score.n - n) <= Abs(moods[j].score.n - n)
          /\ \A j \in 1..(i - 1) : Abs(moods[j].score.n - n) > Abs(moods[i].score.n - n)]

\* the delta a generator seeded with seed draws for a magnitude
SeededDelta(seed, magnitude) == ((seed * 7 + 3) % (2 * magnitude + 1)) - magnitude

\* a mutant: one generator is shared by all calls and advances with each of them
DriftDeltasShared(config) ==
  IF Has(config.mood, "seed")
  THEN {SeededDelta(config.mood.seed + now, config.mood.drift)}
  ELSE (-config.mood.drift)..config.mood.drift

\* the deltas one drift call can draw: one with a seed, any in range without
DriftDeltas(config) ==
  IF Has(config.mood, "seed")
  THEN {SeededDelta(config.mood.seed, config.mood.drift)}
  ELSE (-config.mood.drift)..config.mood.drift

\* a mutant: the random walk is taken even under a pinned override
driftIgnoresOverride(state, config, moods, delta, t) ==
  IF ~config.mood.enabled \/ Len(moods) = 0 THEN state
  ELSE LET clamped == Clamp(state.score.n + delta, MinScore(moods), MaxScore(moods))
       IN  Put(Put(Put(state, "current", ClosestMood(moods, clamped).name),
                   "score", Num(clamped)), "lastUpdate", t)

\* a mutant: the score snaps to the score of the chosen entry
driftSnapsScore(state, config, moods, delta, t) ==
  IF ~config.mood.enabled THEN state
  ELSE IF OverridePinned(state, t) THEN Put(state, "current", state.override)
  ELSE IF Len(moods) = 0 THEN state
  ELSE LET clamped == Clamp(state.score.n + delta, MinScore(moods), MaxScore(moods))
       IN  Put(Put(Put(state, "current", ClosestMood(moods, clamped).name),
                   "score", ClosestMood(moods, clamped).score), "lastUpdate", t)

\* a mutant: the new score is not clamped to the range of the catalog
driftUnclamped(state, config, moods, delta, t) ==
  IF ~config.mood.enabled THEN state
  ELSE IF OverridePinned(state, t) THEN Put(state, "current", state.override)
  ELSE IF Len(moods) = 0 THEN state
  ELSE Put(Put(Put(state, "current", ClosestMood(moods, state.score.n + delta).name),
               "score", Num(state.score.n + delta)), "lastUpdate", t)

drift(state, config, moods, delta, t) ==
  IF ~config.mood.enabled THEN state
  ELSE IF OverridePinned(state, t) THEN Put(state, "current", state.override)
  ELSE IF Len(moods) = 0 THEN state
  ELSE LET clamped == Clamp(state.score.n + delta, MinScore(moods), MaxScore(moods))
       IN  Put(Put(Put(state, "current", ClosestMood(moods, clamped).name),
                   "score", Num(clamped)), "lastUpdate", t)

\* the store the switched path held before, decoded as the switch decodes it
SwitchedFrom == loadPersonalityFile([p \in Paths |-> last.before], last.path)

\* C30, the in-memory transform: a key that is not a personality of the store
\* yields null, a key that is one yields the store with active set to it and
\* everything else as it was
C30_SwitchInMemory ==
  last.op = "switchActivePersonality" =>
    IF ObjHas(last.file.personalities, last.key)
    THEN last.out = Some(Put(last.file, "active", last.key))
    ELSE last.out = Nothing

\* C30, the on-disk switch: with a key that is not a personality of the store
\* at the path no file changes, with a key that is one the file holds the
\* store with active set to it and everything else as it was
C30_SwitchOnDisk ==
  last.op = "switchActiveInFile" =>
    IF SwitchedFrom.kind = "some" /\ ObjHas(SwitchedFrom.v.personalities, last.key)
    THEN disk[last.path] = Json(JsonStringify(Put(SwitchedFrom.v, "active", last.key)))
    ELSE disk[last.path] = last.before

\* C30: switching to a key that is not a personality of the store yields null
\* and changes nothing, switching to one that is changes only active, in
\* memory and on disk alike
C30_SwitchChecksKey == C30_SwitchInMemory /\ C30_SwitchOnDisk

Added == last.op = "addPersonality"

\* C31: addPersonality returns a store in which the key maps to the given
\* definition and active, states and every other personality are those of the
\* input, which is left as it was on disk; an existing key keeps its position
\* in the order of keys, and the other keys keep their order
C31_AddSetsOneKey ==
  Added =>
    LET old == last.file.personalities
        new == last.out.personalities
    IN  /\ DOMAIN last.out = DOMAIN last.file
        /\ \A f \in DOMAIN last.file \ {"personalities"} : last.out[f] = last.file[f]
        /\ ObjHas(new, last.key) /\ ObjGet(new, last.key) = last.definition
        /\ ObjKeySet(new) = ObjKeySet(old) \cup {last.key}
        /\ \A k \in ObjKeySet(old) \ {last.key} : ObjGet(new, k) = ObjGet(old, k)
        /\ ObjHas(old, last.key) => ObjKeys(new) = ObjKeys(old)
        /\ ObjKeys(ObjWithout(new, last.key)) = ObjKeys(ObjWithout(old, last.key))
        /\ \E path \in Paths : loadPersonalityFile(disk, path) = Some(last.file)

\* the first of two keys was given a new definition, in a store with states
C31_Witness ==
  /\ Added
  /\ Len(last.file.personalities) = 2
  /\ last.file.personalities[1].key = last.key
  /\ last.file.personalities[1].val # last.definition
  /\ last.out.personalities[1] = [key |-> last.key, val |-> last.definition]
  /\ Has(last.out, "states")
  /\ last.out.active # last.key

\* a key the store did not hold was added
C31_WitnessNewKey ==
  /\ Added
  /\ ~ObjHas(last.file.personalities, last.key)
  /\ Len(last.out.personalities) = Len(last.file.personalities) + 1

(***************************************************************************)
(* SpecDrift: repeated drift ticks on a loaded mood state                   *)
(***************************************************************************)
\* the resolved definitions a session drifts under
DriftConfigs ==
  { mergeWithDefaults(
      LET m0 == [enabled |-> en, drift |-> mag]
          m1 == IF seed = 0 THEN m0 ELSE Put(m0, "seed", seed)
          d0 == [description |-> "drifting", mood |-> m1]
      IN  IF custom THEN Put(d0, "moods", CustomMoods) ELSE d0) :
      en \in BOOLEAN, mag \in {2, 15}, seed \in 0..2, custom \in BOOLEAN }

\* the normalized states a load can hand to drift
DriftStates ==
  { [current |-> cur, score |-> Num(sc), lastUpdate |-> 0, override |-> ov,
     overrideExpiry |-> ex] :
      cur \in {"happy", "ecstatic"}, sc \in {10, -15},
      ov \in {NULL, "", "bored", "happy"},
      ex \in {NULL} \cup {Stamp(n) : n \in 1..MaxNow} }

InitDrift ==
  /\ disk = [p \in Paths |-> Absent]
  /\ dirs = [p \in Paths |-> FALSE]
  /\ now = 0
  /\ sess \in {[kind |-> "engine", config |-> c] : c \in DriftConfigs}
  /\ last \in {[op |-> "loaded", state |-> s] : s \in DriftStates}

\* one tick: the clock advances and drift is applied to the current state
Drift ==
  /\ now < MaxNow
  /\ now' = now + 1
  /\ \E delta \in DriftDeltas(sess.config) :
       last' = [op |-> "drift", before |-> last.state, delta |-> delta, t |-> now',
                state |-> drift(last.state, sess.config, resolveMoods(sess.config),
                                delta, now')]
  /\ UNCHANGED <<disk, dirs, sess>>

\* a second run under a seed: drift is applied once more to the state the last
\* call started from, with the same definition, at a later time
Redrift ==
  /\ last.op = "drift"
  /\ Has(sess.config.mood, "seed")
  /\ now <= MaxNow
  /\ now' = now + 1
  /\ \E delta \in DriftDeltas(sess.config) :
       last' = [op |-> "redrift", before |-> last.before, delta |-> delta, t |-> now',
                state |-> drift(last.before, sess.config, resolveMoods(sess.config),
                                delta, now'),
                first |-> last.state, firstT |-> last.t]
  /\ UNCHANGED <<disk, dirs, sess>>

NextDrift == Drift \/ Redrift

SpecDrift == InitDrift /\ [][NextDrift]_vars

(***************************************************************************)
(* Claims about drift (SpecDrift)                                           *)
(***************************************************************************)
\* drift has been applied with mood enabled
Drifted == last.op = "drift" /\ sess.config.mood.enabled

\* C20: a drift step on a state whose override is set and not expired leaves
\* current equal to the override and the score as it was, whatever the seed
\* and the drift magnitude
C20_PinnedOverrideHolds ==
  (Drifted /\ OverridePinned(last.before, last.t)) =>
    /\ last.state.current = last.before.override
    /\ last.state.score = last.before.score
    /\ last.state.override = last.before.override

\* a large delta was drawn for a state pinned to a mood other than its
\* current one, with an expiry still ahead
C20_Witness ==
  /\ Drifted
  /\ OverridePinned(last.before, last.t)
  /\ last.before.overrideExpiry # NULL
  /\ last.before.current # last.before.override
  /\ Abs(last.delta) >= 10
  /\ last.state.current = last.before.override

\* the override had expired and the walk moved the mood
C20_WitnessExpired ==
  /\ Drifted
  /\ Truthy(last.before.override)
  /\ ~OverridePinned(last.before, last.t)
  /\ last.state.score # last.before.score

\* the catalog of the drifting session and the values of one free drift step
DriftCatalog == resolveMoods(sess.config)

Walked == Drifted /\ ~OverridePinned(last.before, last.t)

\* C22: a drift step with mood enabled and no unexpired override draws a delta
\* within the magnitude, sets the score to old score + delta clamped to the
\* range of the catalog scores (not to the score of the chosen entry), and sets
\* current to the entry closest to that score, the earliest one on a tie
C22_DriftClampsAndPicksClosest ==
  Walked =>
    LET target == last.before.score.n + last.delta
        score == last.state.score.n
        dist(i) == Abs(DriftCatalog[i].score.n - score)
    IN  /\ Abs(last.delta) <= sess.config.mood.drift
        /\ \A i \in 1..Len(DriftCatalog) :
             /\ target <= DriftCatalog[i].score.n => score <= DriftCatalog[i].score.n
             /\ target >= DriftCatalog[i].score.n => score >= DriftCatalog[i].score.n
        /\ (\E i, j \in 1..Len(DriftCatalog) :
              /\ DriftCatalog[i].score.n <= target
              /\ target <= DriftCatalog[j].score.n) => score = target
        /\ \E i \in 1..Len(DriftCatalog) :
             /\ DriftCatalog[i].name = last.state.current
             /\ \A j \in 1..Len(DriftCatalog) : dist(i) <= dist(j)
             /\ \A j \in 1..(i - 1) : dist(j) > dist(i)

\* the catalog bored -2, happy 1, ecstatic 2: score 1 and delta +1.5 give the
\* score 2 and the mood ecstatic
C22_Witness ==
  /\ Walked
  /\ DriftCatalog = CustomMoods
  /\ last.before.score = Num(10)
  /\ last.delta = 15
  /\ last.state.score = Num(20)
  /\ last.state.current = "ecstatic"

\* the score stopped half way between two entries and the earlier one was chosen
C22_WitnessTie ==
  /\ Walked
  /\ last.state.score = Num(15)
  /\ last.state.current = "happy"
  /\ \E i \in 1..Len(DriftCatalog) : DriftCatalog[i].score = Num(20)

\* drift has run twice from the same prior state under a seed
SeededRerun ==
  /\ last.op = "redrift"
  /\ sess.config.mood.enabled
  /\ Has(sess.config.mood, "seed")

C23_WitnessExpired ==
  /\ SeededRerun
  /\ OverridePinned(last.before, last.firstT)
  /\ ~OverridePinned(last.before, last.t)
  /\ last.state.score # last.first.score

(***************************************************************************)
(* Spec: a plugin session issuing commands against the two store files     *)
(***************************************************************************)
\* the store files a session can start from
ProgramFiles ==
  { [active |-> "a", personalities |-> PersOf(1, <<"a", "b">>),
     states |-> StatesOf(1, <<"a">>)],
    [active |-> "b", personalities |-> PersOf(2, <<"b">>)],
    [description |-> "old", name |-> "b", state |-> StateOf(2)] }

Init ==
  /\ disk \in [Paths -> {Absent} \cup {Json(f) : f \in ProgramFiles}]
  /\ dirs = [p \in Paths |-> disk[p].kind # "absent"]
  /\ now = 0
  /\ sess = Down
  /\ last = Idle

ScopeFlags == {NoFlag, "global", "project"}

\* the plugin's hooks and tools exist once its entry point has returned
Running == sess.kind = "ok"

\* the handler's effect on the file system, one clock tick later
Effect(r, op, arg) ==
  /\ disk' = r.fs.disk
  /\ dirs' = r.fs.dirs
  /\ now' = now + 1
  /\ last' = [op |-> op, arg |-> arg, msg |-> r.msg, threw |-> r.threw]
  /\ UNCHANGED sess

FS == [disk |-> disk, dirs |-> dirs]

\* the session ends; the next one loads the configuration again
Shutdown ==
  /\ sess # Down
  /\ sess' = Down
  /\ UNCHANGED <<disk, dirs, now, last>>

Switch ==
  /\ Running /\ now < MaxNow
  /\ \E targetName \in {"a", "b"}, scopeFlag \in ScopeFlags :
       Effect(CommandSwitch(FS, sess, targetName, scopeFlag), "switch", targetName)

Edit ==
  /\ Running /\ now < MaxNow
  /\ \E fv \in {<<"emoji", "yes">>, <<"mood.default", "bored">>}, scopeFlag \in ScopeFlags :
       Effect(CommandEdit(FS, sess, fv[1], fv[2], scopeFlag), "edit", fv[1])

ResetName ==
  /\ Running /\ now < MaxNow
  /\ \E targetName \in {"a", "b"}, scopeFlag \in ScopeFlags :
       Effect(CommandResetName(FS, sess, targetName, scopeFlag), "reset-name", targetName)

Reset ==
  /\ Running /\ now < MaxNow
  /\ \E scopeFlag \in ScopeFlags :
       Effect(CommandReset(FS, sess, scopeFlag), "reset", scopeFlag)

SaveTool ==
  /\ Running /\ now < MaxNow
  /\ \E name \in {UNDEF, "b"}, scope \in {UNDEF, "global"} :
       Effect(SavePersonalityTool(FS, sess,
                [name |-> name, description |-> "tool", moodEnabled |-> TRUE,
                 scope |-> scope]),
              "save", name)

\* /mood: registered only when a personality is configured
Mood ==
  /\ Running /\ now < MaxNow
  /\ sess.config.kind = "some"
  /\ \E args \in {"", "status", "Happy", "bored", "nope"} :
       Effect(handleMoodCommand(FS, args, sess.statePath, sess.config.v,
                                resolveMoods(sess.config.v), CommandActiveKey(sess), now),
              "mood", args)

Next ==
  \/ PluginInit
  \/ Shutdown
  \/ Switch
  \/ Edit
  \/ ResetName
  \/ Reset
  \/ SaveTool
  \/ Mood

Spec == Init /\ [][Next]_vars

(***************************************************************************)
(* Claims about the command handlers (Spec)                                *)
(***************************************************************************)
\* C8: no store file on disk holds an empty profiles map (a file is absent or
\* has at least one profile), and removing the last profile of a file through
\* reset --name deletes the file
C8_NoEmptyProfilesMap ==
  /\ \A p \in Paths :
       disk[p].kind = "json" =>
         LET file == loadPersonalityFile(disk, p).v
         IN  Has(file, "personalities") /\ Len(file.personalities) > 0
  /\ (last.op = "reset-name" /\ last.msg = "removed-last") =>
       \E p \in Paths : disk[p] = Absent

\* the keys of the mood states a path stores
StateKeysAt(d, p) ==
  IF d[p].kind = "json" THEN ObjKeySet(StatesOrEmpty(StoreAt(d, p))) ELSE {}

\* C12: in every step, a states entry of a store file is still in the file
\* afterwards unless the step removed the profile of that key (reset --name)
\* or deleted the file
C12_StateLivesWithProfile ==
  [][\A p \in Paths : \A k \in StateKeysAt(disk, p) :
        \/ k \in StateKeysAt(disk', p)
        \/ disk'[p] = Absent
        \/ last'.op = "reset-name" /\ last'.arg = k]_vars

\* a file holds the legacy flat shape
IsLegacyOnDisk(d, p) == d[p].kind = "json" /\ isLegacyFormat(d[p].data)

\* C14: every step that writes a store file writes the canonical shape with
\* active and personalities, and a legacy file that is written keeps its old
\* profile and the states entry of that profile
C14_WritesCanonicalShape ==
  [][\A p \in Paths :
        (disk'[p] # disk[p] /\ disk'[p].kind = "json") =>
          /\ Has(disk'[p].data, "active")
          /\ Has(disk'[p].data, "personalities")
          /\ IsLegacyOnDisk(disk, p) =>
                LET old == StoreAt(disk, p)
                IN  /\ ObjHas(disk'[p].data.personalities, old.active)
                    /\ Has(old, "states") =>
                          ObjHas(StatesOrEmpty(disk'[p].data), old.active)]_vars

\* C15: a successful savePersonality call changes one file; in it the saved
\* personality is the active one, every other personality is as before and
\* every states entry is as before
C15_SaveKeepsTheRest ==
  [][(now' # now /\ last'.op = "save" /\ last'.msg = "saved") =>
        \E p \in Paths :
          /\ \A q \in Paths \ {p} : disk'[q] = disk[q]
          /\ disk'[p].kind = "json"
          /\ LET new == StoreAt(disk', p)
                 oldPers == IF disk[p].kind = "json" THEN PersOrEmpty(StoreAt(disk, p))
                            ELSE EmptyObj
                 oldStates == IF disk[p].kind = "json" THEN StatesOrEmpty(StoreAt(disk, p))
                              ELSE EmptyObj
             IN  /\ ObjHas(new.personalities, new.active)
                 /\ \A k \in ObjKeySet(oldPers) \ {new.active} :
                       /\ ObjHas(new.personalities, k)
                       /\ ObjGet(new.personalities, k) = ObjGet(oldPers, k)
                 /\ \A k \in ObjKeySet(oldStates) :
                       /\ ObjHas(StatesOrEmpty(new), k)
                       /\ ObjGet(new.states, k) = ObjGet(oldStates, k)]_vars

\* the step is a /mood command of the session
MoodStep == now' # now /\ last'.op = "mood"

\* the mood name a /mood command asks for
AskedMood == Lower(Trim(last'.arg))

\* the file at the session's state path stores the asked mood as current and
\* as override, with no expiry, under the session's active key
PinnedOnDisk(d) ==
  /\ d[sess.statePath].kind = "json"
  /\ Has(d[sess.statePath].data, "states")
  /\ ObjHas(d[sess.statePath].data.states, CommandActiveKey(sess))
  /\ LET s == ObjGet(d[sess.statePath].data.states, CommandActiveKey(sess))
     IN  /\ Get(s, "current") = AskedMood
         /\ Get(s, "override") = AskedMood
         /\ Get(s, "overrideExpiry") = NULL

C19_WitnessNoStore ==
  /\ last.op = "mood"
  /\ last.msg = "mood-set"
  /\ sess.kind = "ok"
  /\ disk[sess.statePath] = Absent

(***************************************************************************)
(* index.ts: the hooks of a configured session. driftMoodWithToast lives    *)
(* in mood.ts, which is not part of the sources: it is modelled from        *)
(* sections 4.3 and 5 of the specification (drift, persist, then notify).   *)
(***************************************************************************)
\* a mutant: the state is not written while a notification is due
driftMoodWithToastNotifyFirst(fs, statePath, state, config, moods, key, delta, t) ==
  LET next == drift(state, config, moods, delta, t)
      toast == config.mood.toast /\ next.current # state.current
      saved == saveMoodState(fs, statePath, next, key)
  IN  [fs |-> IF toast THEN fs ELSE saved.fs, state |-> next, toast |-> toast]

driftMoodWithToast(fs, statePath, state, config, moods, key, delta, t) ==
  LET next == drift(state, config, moods, delta, t)
      saved == saveMoodState(fs, statePath, next, key)
  IN  [fs |-> saved.fs, state |-> next,
       toast |-> config.mood.toast /\ next.current # state.current]

\* a mutant: the hook drifts whether mood is enabled or not
HookDriftUngated(fs, configResult, delta, t) ==
  LET config == configResult.config.v
      state == loadMoodState(fs.disk, configResult.statePath, config, UNDEF, t).v
      drifted == driftMoodWithToast(fs, configResult.statePath, state, config,
                                    resolveMoods(config), CommandActiveKey(configResult),
                                    delta, t)
  IN  [fs |-> drifted.fs, loaded |-> state, state |-> drifted.state,
       toast |-> drifted.toast]

\* let state = loadMoodState(statePath, config); if (config.mood.enabled)
\* state = await driftMoodWithToast(...)
HookDrift(fs, configResult, delta, t) ==
  LET config == configResult.config.v
      state == loadMoodState(fs.disk, configResult.statePath, config, UNDEF, t).v
      drifted == driftMoodWithToast(fs, configResult.statePath, state, config,
                                    resolveMoods(config), CommandActiveKey(configResult),
                                    delta, t)
  IN  IF config.mood.enabled
      THEN [fs |-> drifted.fs, loaded |-> state, state |-> drifted.state,
            toast |-> drifted.toast]
      ELSE [fs |-> fs, loaded |-> state, state |-> state, toast |-> FALSE]

\* before the session starts: the program's store files, and two whose profile
\* drifts far enough in one step to change its mood
InitHooks ==
  /\ disk \in [Paths -> {Absent} \cup {Json(f) : f \in
       ProgramFiles \cup
       { [active |-> "a",
          personalities |-> <<[key |-> "a", val |-> [description |-> "lively",
                                mood |-> [enabled |-> TRUE, drift |-> 15]]]>>,
          states |-> StatesOf(1, <<"a">>)],
         [description |-> "old",
          mood |-> [enabled |-> TRUE, drift |-> 15, toast |-> FALSE],
          state |-> StateOf(1)] }}]
  /\ dirs = [p \in Paths |-> disk[p].kind # "absent"]
  /\ now = 0
  /\ sess = Down
  /\ last = Idle

\* the notification of the last drift step is still to be issued
NotifyDue == Has(last, "pending") /\ last.pending

\* the hooks exist when a personality is configured; a hook runs to its end,
\* notification included, before the next one starts
HooksReady ==
  /\ Running
  /\ sess.config.kind = "some"
  /\ now < MaxNow
  /\ ~NotifyDue

\* what a hook leaves behind
HookEffect(r, op) ==
  /\ disk' = r.fs.disk
  /\ dirs' = r.fs.dirs
  /\ now' = now + 1
  /\ last' = [op |-> op, loaded |-> r.loaded, state |-> r.state, pending |-> r.toast,
              notified |-> "none"]
  /\ UNCHANGED sess

\* experimental.chat.system.transform
ChatTransform ==
  /\ HooksReady
  /\ \E delta \in DriftDeltas(sess.config.v) :
       HookEffect(HookDrift(FS, sess, delta, now + 1), "transform")

\* event: message.updated of an assistant message
MessageEvent ==
  /\ HooksReady
  /\ \E delta \in DriftDeltas(sess.config.v) :
       HookEffect(HookDrift(FS, sess, delta, now + 1), "event")

\* experimental.session.compacting: the state is only read
Compacting ==
  /\ HooksReady
  /\ LET state == loadMoodState(disk, sess.statePath, sess.config.v, UNDEF, now + 1).v
     IN  HookEffect([fs |-> FS, loaded |-> state, state |-> state, toast |-> FALSE],
                    "compacting")

\* client.tui.showToast: the notification is shown or fails
Notify ==
  /\ NotifyDue
  /\ \E shown \in BOOLEAN :
       last' = [last EXCEPT !.pending = FALSE,
                            !.notified = IF shown THEN "shown" ELSE "failed"]
  /\ UNCHANGED <<disk, dirs, now, sess>>

NextHooks ==
  \/ PluginInit
  \/ ChatTransform
  \/ MessageEvent
  \/ Compacting
  \/ Notify
  \/ (~NotifyDue /\ Reset)
  \/ (~NotifyDue /\ Mood)

SpecHooks == InitHooks /\ [][NextHooks]_vars

(***************************************************************************)
(* Claims about the hooks (SpecHooks)                                       *)
(***************************************************************************)
\* the step is a hook of the session
HookStep == now' # now /\ last'.op \in {"transform", "event", "compacting"}

\* C21: with mood disabled in the session's profile, no hook changes the state
\* it loaded and no hook writes a store file
C21_DisabledMoodNoDrift ==
  [][(HookStep /\ ~sess.config.v.mood.enabled) =>
       /\ last'.state = last'.loaded
       /\ disk' = disk
       /\ ~last'.pending]_vars

\* a hook has run for a profile with mood disabled whose store holds a state
C21_Witness ==
  /\ last.op \in {"transform", "event"}
  /\ sess.kind = "ok"
  /\ ~sess.config.v.mood.enabled
  /\ disk[sess.statePath].kind = "json"
  /\ StateKeysAt(disk, sess.statePath) # {}

\* the state a drift step leaves in the store, under the session's active key
PersistedState ==
  LET file == disk[sess.statePath].data
  IN  IF disk[sess.statePath].kind = "json" /\ Has(file, "states")
         /\ ObjHas(file.states, CommandActiveKey(sess))
      THEN Some(ObjGet(file.states, CommandActiveKey(sess)))
      ELSE Nothing

\* a notification of the last drift step is due, was shown or has failed
Notifying == Has(last, "pending") /\ (last.pending \/ last.notified # "none")

C24_WitnessNoStore ==
  /\ Has(last, "notified")
  /\ last.notified = "failed"
  /\ last.state.current # last.loaded.current
  /\ disk[sess.statePath].kind = "absent"

CycleOutput(who, snap) ==
  LET fs == [disk |-> [disk EXCEPT !["project"] = snap], dirs |-> dirs]
      ran == IF who = "mood"
             THEN saveMoodState(fs, "project",
                    [current |-> "ecstatic", score |-> Num(20), lastUpdate |-> 2,
                     override |-> NULL, overrideExpiry |-> NULL], "a")
             ELSE savePersonalityToFile(fs, "project", "c", DefOf(2, "c"),
                                        sess.setActive)
  IN  ran.fs.disk["project"]

InitRace ==
  /\ disk \in {[global |-> Absent, project |-> Json(f)] : f \in CanonicalFiles}
  /\ dirs = [global |-> FALSE, project |-> TRUE]
  /\ now = 0
  /\ sess \in {[kind |-> "race", orig |-> disk["project"], setActive |-> b,
                mood |-> [pc |-> "idle", snap |-> Absent],
                save |-> [pc |-> "idle", snap |-> Absent]] :
                 b \in BOOLEAN}
  /\ last = Idle

\* const file = loadPersonalityFile(path), in either function
RaceRead(who) ==
  /\ sess[who].pc = "idle"
  /\ sess' = [sess EXCEPT ![who] = [pc |-> "read", snap |-> disk["project"]]]
  /\ UNCHANGED <<disk, dirs, now, last>>

\* writeFileSync(path, JSON.stringify(...)), in either function
RaceWrite(who) ==
  /\ sess[who].pc = "read"
  /\ LET fs == writeFileSync(FS, "project", CycleOutput(who, sess[who].snap).data)
     IN  disk' = fs.disk /\ dirs' = fs.dirs
  /\ sess' = [sess EXCEPT ![who].pc = "done"]
  /\ last' = [op |-> "write", who |-> who]
  /\ UNCHANGED now

\* the callers: saveMoodState ("mood") and savePersonalityToFile ("save")
NextRace == \E who \in {"mood", "save"} : RaceRead(who) \/ RaceWrite(who)

SpecRace == InitRace /\ [][NextRace]_vars

(***************************************************************************)
(* Claims about overlapping cycles (SpecRace)                               *)
(***************************************************************************)
\* both cycles are over, and both had read before either wrote
RacedBoth ==
  /\ sess.mood.pc = "done" /\ sess.save.pc = "done"
  /\ sess.mood.snap = sess.orig /\ sess.save.snap = sess.orig

RaceFile == disk["project"].data

\* C25: when saveMoodState for one key and savePersonalityToFile for another
\* both read the file before either writes, the file ends as the complete
\* output of the later write computed from the original content: the earlier
\* caller's update is lost, and nothing of it is mixed in
C25_LaterWriteWinsWhole ==
  RacedBoth =>
    /\ disk["project"] = CycleOutput(last.who, sess.orig)
    /\ last.who = "save" =>
         /\ ObjHas(RaceFile.personalities, "c")
         /\ Get(RaceFile, "states") = Get(sess.orig.data, "states")
    /\ last.who = "mood" =>
         /\ ObjGet(RaceFile.states, "a").current = "ecstatic"
         /\ RaceFile.personalities = sess.orig.data.personalities
         /\ RaceFile.active = sess.orig.data.active

\* the personality was written last over a file that held other states: the
\* mood written in between is gone
C25_Witness ==
  /\ RacedBoth
  /\ last.who = "save"
  /\ Has(RaceFile, "states")
  /\ ObjHas(RaceFile.states, "b")
  /\ ~ObjHas(RaceFile.states, "a")

\* the mood was written last: the personality saved in between is gone
C25_WitnessMoodLast ==
  /\ RacedBoth
  /\ last.who = "mood"
  /\ ~ObjHas(RaceFile.personalities, "c")
  /\ sess.setActive
  /\ RaceFile.active # "c"

\* the cycles ran one after the other and both updates are in the file
C25_WitnessSerial ==
  /\ sess.mood.pc = "done" /\ sess.save.pc = "done"
  /\ ObjHas(RaceFile.personalities, "c")
  /\ Has(RaceFile, "states")
  /\ ObjHas(RaceFile.states, "a")
  /\ ObjGet(RaceFile.states, "a").current = "ecstatic"

(***************************************************************************)
(* SpecPure: mergeWithDefaults and normalizeState applied to drawn inputs,  *)
(* and applied once more to their own result                                *)
(***************************************************************************)
\* the inputs: partial definitions with every field set or left out, and
\* stored states with every field valid, invalid or missing, next to a default
\* mood and a catalog
InitPure ==
  /\ disk = [p \in Paths |-> Absent]
  /\ dirs = [p \in Paths |-> FALSE]
  /\ now = 0
  /\ last = Idle
  /\ LET Defined(r) == [f \in {x \in DOMAIN r : r[x] # UNDEF} |-> r[f]]
     IN sess \in
       { [kind |-> "partial",
          partial |->
            LET d == Defined([name |-> name, description |-> description])
                m0 == Defined([default |-> dflt])
                m1 == IF enabled THEN Put(m0, "enabled", TRUE) ELSE m0
                m == IF far THEN Put(m1, "drift", 15) ELSE m1
                d1 == IF hasMood THEN Put(d, "mood", m) ELSE d
                d2 == IF emoji THEN Put(d1, "emoji", TRUE) ELSE d1
            IN  IF cat = 0 THEN d2
                ELSE Put(d2, "moods", IF cat = 1 THEN CustomMoods ELSE <<>>)] :
           name \in {UNDEF, "n"}, description \in {UNDEF, "d"},
           enabled \in BOOLEAN, dflt \in {UNDEF, "bored", "gone"}, far \in BOOLEAN,
           hasMood \in BOOLEAN, emoji \in BOOLEAN, cat \in 0..2 }
       \cup
       { [kind |-> "state",
          state |->
            LET s0 == Defined([current |-> cur, override |-> ov])
                s1 == Put(Put(s0, "lastUpdate", 0), "overrideExpiry", NULL)
            IN  CASE sc = 0 -> s1
                  [] sc = 1 -> Put(s1, "score", Num(5))
                  [] sc = 2 -> Put(s1, "score", NullNum)
                  [] OTHER -> Put(s1, "score", NaN),
          defaultMood |-> dm, moods |-> cat] :
           cur \in {UNDEF, "happy", "angry", "gone"},
           ov \in {UNDEF, NULL, "", "angry", "gone"},
           sc \in 0..3, dm \in {"happy", "gone"},
           cat \in {DEFAULT_MOODS, CustomMoods, <<>>} }

\* mergeWithDefaults(partial)
MergeWithDefaults ==
  /\ sess.kind = "partial" /\ last = Idle
  /\ last' = [op |-> "merge", out |-> mergeWithDefaults(sess.partial)]
  /\ UNCHANGED <<disk, dirs, now, sess>>

\* mergeWithDefaults applied to its own result
MergeAgain ==
  /\ last.op = "merge"
  /\ last' = [op |-> "merge-again", first |-> last.out,
              out |-> mergeWithDefaults(last.out)]
  /\ UNCHANGED <<disk, dirs, now, sess>>

\* normalizeState(state, defaultMood, moods)
NormalizeState ==
  /\ sess.kind = "state" /\ last = Idle
  /\ last' = [op |-> "normalize",
              out |-> normalizeState(sess.state, sess.defaultMood, sess.moods)]
  /\ UNCHANGED <<disk, dirs, now, sess>>

\* normalizeState applied to its own result
NormalizeAgain ==
  /\ last.op = "normalize"
  /\ last' = [op |-> "normalize-again", first |-> last.out,
              out |-> normalizeState(last.out, sess.defaultMood, sess.moods)]
  /\ UNCHANGED <<disk, dirs, now, sess>>

\* resolveMoods(config) and resolveDefaultMood(config, moods), for the resolved
\* catalog and for an empty one
ResolveMood ==
  /\ sess.kind = "partial" /\ last = Idle
  /\ LET config == mergeWithDefaults(sess.partial)
     IN  \E moods \in {resolveMoods(config), <<>>} :
           last' = [op |-> "resolve", config |-> config,
                    catalog |-> resolveMoods(config), moods |-> moods,
                    out |-> resolveDefaultMood(config, moods)]
  /\ UNCHANGED <<disk, dirs, now, sess>>

NextPure ==
  MergeWithDefaults \/ MergeAgain \/ NormalizeState \/ NormalizeAgain \/ ResolveMood

SpecPure == InitPure /\ [][NextPure]_vars

(***************************************************************************)
(* Claims about mergeWithDefaults and normalizeState (SpecPure)             *)
(***************************************************************************)
Merged == last.op \in {"merge", "merge-again"}

\* C26: for every partial definition the result of mergeWithDefaults has a
\* mood config with every key of the default one and a moods catalog, and
\* applying mergeWithDefaults to the result gives the result again
C26_MergeTotalIdempotent ==
  /\ Merged =>
       /\ Has(last.out, "mood")
       /\ DOMAIN DEFAULT_MOOD_CONFIG \subseteq DOMAIN last.out.mood
       /\ Has(last.out, "moods")
  /\ last.op = "merge-again" => last.out = last.first

\* a partial with a mood config of one key and no catalog was merged twice
C26_Witness ==
  /\ last.op = "merge-again"
  /\ Has(sess.partial, "mood")
  /\ DOMAIN sess.partial.mood = {"drift"}
  /\ ~Has(sess.partial, "moods")
  /\ last.out.moods = DEFAULT_MOODS
  /\ last.out.mood.drift = 15

\* the empty partial was merged
C26_WitnessEmpty ==
  /\ last.op = "merge"
  /\ DOMAIN sess.partial = {}
  /\ last.out.mood = DEFAULT_MOOD_CONFIG

\* C27: mergeWithDefaults takes every key of the mood config from the partial
\* mood config when it has the key and from the default otherwise, and takes
\* every other field whole from the partial when it has the field: a partial
\* moods list is the result's catalog, with no default entry kept
C27_MoodByKeyRestWhole ==
  last.op = "merge" =>
    LET p == sess.partial
        out == last.out
        pm == IF Has(p, "mood") THEN p.mood ELSE <<>>
    IN  /\ DOMAIN out = {"name", "description", "emoji", "slangIntensity", "moods", "mood"}
        /\ DOMAIN out.mood = DOMAIN DEFAULT_MOOD_CONFIG \cup DOMAIN pm
        /\ \A k \in DOMAIN out.mood :
             out.mood[k] = IF k \in DOMAIN pm THEN pm[k] ELSE DEFAULT_MOOD_CONFIG[k]
        /\ out.name = (IF Has(p, "name") THEN p.name ELSE "")
        /\ out.description = (IF Has(p, "description") THEN p.description ELSE "")
        /\ out.emoji = (IF Has(p, "emoji") THEN p.emoji ELSE FALSE)
        /\ out.slangIntensity = 0
        /\ out.moods = (IF Has(p, "moods") THEN p.moods ELSE DEFAULT_MOODS)

\* a mood config that sets only the default mood, next to a catalog of three
C27_Witness ==
  /\ last.op = "merge"
  /\ Has(sess.partial, "mood")
  /\ DOMAIN sess.partial.mood = {"default"}
  /\ last.out.mood.default = "bored"
  /\ last.out.mood.enabled = DEFAULT_MOOD_CONFIG.enabled
  /\ last.out.mood.drift = DEFAULT_MOOD_CONFIG.drift
  /\ last.out.moods = CustomMoods
  /\ "angry" \notin MoodNames(last.out.moods)

\* an empty moods list replaced the default catalog
C27_WitnessEmptyList ==
  /\ last.op = "merge"
  /\ Has(sess.partial, "moods")
  /\ last.out.moods = <<>>

\* the score of the state handed to normalizeState is a number
ValidScore == Has(sess.state, "score") /\ sess.state.score.t = "number"

\* C28: normalizeState returns a valid numeric score as it is, and returns the
\* catalog score of the normalized current mood in place of a score that is
\* missing, not a number, or NaN
C28_InvalidScoreReplaced ==
  last.op = "normalize" =>
    IF ValidScore THEN last.out.score = sess.state.score
    ELSE /\ Has(last.out, "score")
         /\ last.out.score = resolveMoodScore(last.out.current, sess.moods)

\* C29: normalizing a normalized state, with the same catalog and default
\* mood, gives the same state
C29_NormalizeIdempotent ==
  last.op = "normalize-again" => last.out = last.first

\* a state whose current, override and score were all replaced was normalized
\* twice
C29_Witness ==
  /\ last.op = "normalize-again"
  /\ Get(sess.state, "current") = "gone"
  /\ Get(sess.state, "override") = "gone"
  /\ Has(sess.state, "score") /\ NumberIsNaN(sess.state.score)
  /\ last.out.current = "happy"
  /\ last.out.override = NULL
  /\ last.out.score = Num(10)

\* the default mood is not in the catalog either
C29_WitnessDefaultOutside ==
  /\ last.op = "normalize-again"
  /\ last.out.current = "gone"
  /\ sess.moods # <<>>

\* C32: the catalog resolved for a profile is its own moods list when that is
\* not empty and the default catalog otherwise, so it is never empty;
\* resolveDefaultMood returns the configured default when a catalog entry has
\* that name, otherwise the name of the first entry, and "happy" when there is
\* no entry
C32_DefaultMoodResolution ==
  last.op = "resolve" =>
    /\ last.catalog = (IF Has(sess.partial, "moods") /\ sess.partial.moods # <<>>
                       THEN sess.partial.moods ELSE DEFAULT_MOODS)
    /\ Len(last.catalog) > 0
    /\ last.out = (IF \E i \in 1..Len(last.moods) :
                        last.moods[i].name = last.config.mood.default
                   THEN last.config.mood.default
                   ELSE IF Len(last.moods) > 0 THEN last.moods[1].name
                   ELSE "happy")

\* the configured default names no entry: the first entry of the profile's own
\* catalog is returned
C32_Witness ==
  /\ last.op = "resolve"
  /\ last.config.mood.default = "gone"
  /\ last.moods = CustomMoods
  /\ last.out = "bored"

\* an empty moods list: the default catalog is resolved
C32_WitnessEmptyList ==
  /\ last.op = "resolve"
  /\ Has(sess.partial, "moods") /\ sess.partial.moods = <<>>
  /\ last.catalog = DEFAULT_MOODS

\* an empty catalog handed to resolveDefaultMood: the built-in name
C32_WitnessBuiltIn ==
  /\ last.op = "resolve"
  /\ last.moods = <<>>
  /\ last.config.mood.default = "gone"
  /\ last.out = "happy"

(***************************************************************************)
(* Claims about successive commands of one session (Spec)                   *)
(***************************************************************************)
\* the file a command with this --scope flag addresses
ScopePathOf(scopeFlag) == resolveScopePath(resolveScope(scopeFlag, sess, FS), sess)

\* the step is /personality switch targetName with this --scope flag
SwitchStep(targetName, scopeFlag) ==
  /\ Running /\ now' = now + 1
  /\ last'.op = "switch" /\ last'.arg = targetName
  /\ LET r == CommandSwitch(FS, sess, targetName, scopeFlag)
     IN  disk' = r.fs.disk /\ dirs' = r.fs.dirs /\ last'.msg = r.msg

\* the personalities a file holds, none when there is no file
PersonalitiesAt(d, p) ==
  IF d[p].kind = "json" THEN PersOrEmpty(StoreAt(d, p)) ELSE EmptyObj

\* the active key a file holds
ActiveAt(d, p) == IF d[p].kind = "json" THEN Get(StoreAt(d, p), "active") ELSE UNDEF

\* C33: a /personality switch that names a personality of the session's store
\* and of the scope file leaves that name as the active key of the scope
\* file, whatever switch commands came before it in the session
C33_LastSwitchIsActive ==
  [][\A targetName \in {"a", "b"}, scopeFlag \in ScopeFlags :
       (/\ SwitchStep(targetName, scopeFlag)
        /\ sess.file.kind = "some"
        /\ ObjHas(sess.file.v.personalities, targetName)
        /\ ObjHas(PersonalitiesAt(disk, ScopePathOf(scopeFlag)), targetName))
       => ActiveAt(disk', ScopePathOf(scopeFlag)) = targetName]_vars

\* C34: after a /personality switch that reports success, loading the
\* configuration afresh resolves the named personality as the active one,
\* for every --scope flag and every combination of layers
C34_SwitchedIsResolved ==
  [][\A targetName \in {"a", "b"}, scopeFlag \in ScopeFlags :
       (SwitchStep(targetName, scopeFlag) /\ last'.msg = "switched")
       => LET fresh == loadConfigWithPrecedence(disk')
          IN  /\ fresh.kind = "ok"
              /\ fresh.file.kind = "some"
              /\ Get(fresh.file.v, "active") = targetName
              /\ fresh.config.kind = "some"]_vars

\* the definition stored under the session's active key in a file
StoredActive(d, p) ==
  IF ObjHas(PersonalitiesAt(d, p), CommandActiveKey(sess))
  THEN Some(ObjGet(PersonalitiesAt(d, p), CommandActiveKey(sess)))
  ELSE Nothing

\* the definition holds the value the model's edit of this field sets
Edited(definition, field) ==
  IF field = "emoji" THEN Has(definition, "emoji") /\ definition.emoji
  ELSE Has(definition, "mood") /\ Get(definition.mood, "default") = "bored"

\* the step is /personality edit of this field with this --scope flag
EditStep(field, value, scopeFlag) ==
  /\ Running /\ now' = now + 1
  /\ last'.op = "edit" /\ last'.arg = field
  /\ LET r == CommandEdit(FS, sess, field, value, scopeFlag)
     IN  disk' = r.fs.disk /\ dirs' = r.fs.dirs /\ last'.msg = r.msg

\* C35: when an edit of one field of the active profile has put a new value
\* into the scope file, the next edit of another field in the same session,
\* on the same scope, leaves both new values in the stored profile
C35_SecondEditKeepsFirst ==
  [][\A fv \in {<<"emoji", "yes">>, <<"mood.default", "bored">>},
        scopeFlag \in ScopeFlags :
       LET before == StoredActive(disk, ScopePathOf(scopeFlag))
           after == StoredActive(disk', ScopePathOf(scopeFlag))
       IN  (/\ EditStep(fv[1], fv[2], scopeFlag)
            /\ last.op = "edit" /\ last.msg = "updated" /\ last.arg # fv[1]
            /\ ~Edited(CommandConfig(sess), last.arg)
            /\ before.kind = "some" /\ Edited(before.v, last.arg))
           => /\ after.kind = "some"
              /\ Edited(after.v, last.arg)
              /\ Edited(after.v, fv[1])]_vars

\* the session found no stored state for its active profile when it started:
\* its first load synthesizes one
StartedWithoutState ==
  /\ Running /\ sess.config.kind = "some"
  /\ ~(Has(sess.file.v, "states") /\ ObjHas(sess.file.v.states, CommandActiveKey(sess)))
  /\ ~(disk[sess.statePath].kind = "json" /\ Has(disk[sess.statePath].data, "state"))

\* C37: for a session that started from the synthesized state, after every
\* sequence of loads, drift steps, manual mood overrides and writes the score
\* stored for its profile lies between the lowest and the highest score of
\* its catalog
C37_StoredScoreInCatalogRange ==
  (StartedWithoutState /\ PersistedState.kind = "some") =>
    LET moods == resolveMoods(sess.config.v)
        score == PersistedState.v.score
    IN  /\ score.t = "number"
        /\ MinScore(moods) <= score.n
        /\ score.n <= MaxScore(moods)

\* a drift step has moved the synthesized score and stored it, after another
\* operation of the session
C37_Witness ==
  /\ StartedWithoutState
  /\ Has(last, "loaded")
  /\ last.op \in {"transform", "event"}
  /\ now = 2
  /\ PersistedState = Some(last.state)
  /\ last.state.score # last.loaded.score

\* a manual override was stored and then a hook ran
C37_WitnessOverride ==
  /\ StartedWithoutState
  /\ Has(last, "loaded")
  /\ PersistedState.kind = "some"
  /\ now = 2
  /\ Get(PersistedState.v, "override") = "bored"

====
